---- MODULE Spec2Model ----
(***************************************************************************)
(* The relay of Secure-Messaging-App: the handshake ledger (KeyExchange    *)
(* records), the message store, and the request handlers of                *)
(* backend/routes/keys.js and backend/routes/messages.js.  A handler is    *)
(* split at its awaits on the database: the step that reads the record     *)
(* (findOne) and the step that checks the snapshot and saves it.           *)
(***************************************************************************)
EXTENDS Integers, Sequences, FiniteSets, TLC

\* ---------------------------------------------------------------- bounds
MaxProcs == 2
MaxRecords == 1
MaxMessages == 3
MaxSeq == 2
MaxTicks == 1
MaxPolls == 41
MaxCalls == 2
StartTime == 1000000

\* ------------------------------------------------------------- constants
NULL == "null"

fiveMinutes == 5 * 60 * 1000

\* MAX_SIZE of the Message schema's pre-save hook, in characters.
MAX_SIZE == 256 * 1024

Procs == 1..MaxProcs

\* u1 and u2 have registered a signing key, u3 has not.
Users == {"u1", "u2", "u3"}

signingPublicKey(u) ==
  CASE u = "u1" -> "pk1"
    [] u = "u2" -> "pk2"
    [] OTHER -> NULL

EphemeralValues == {"eA", "eX"}
NonceValues == {"n1"}
ConfirmationValues == {"c1", "c2"}

\* A session id `${initiatorId}_${responderId}_${Date.now()}`, with the
\* _VULN tag of the demo route as a fourth component.
SessionId(i, r, ms, vuln) == <<i, r, ms, vuln>>

NoSession == <<NULL, NULL, 0, FALSE>>

\* ------------------------------------------------------------ signatures
\* JSON.stringify of the signed object of Init
InitPayload(responderId, ephemeralPublic, nonce, timestamp) ==
  [type |-> "key_exchange_init", responderId |-> responderId,
   sessionId |-> NoSession, ephemeralPublic |-> ephemeralPublic,
   nonce |-> nonce, timestamp |-> timestamp]

\* JSON.stringify of the signed object of Respond
ResponsePayload(sessionId, ephemeralPublic, nonce, timestamp) ==
  [type |-> "key_exchange_response", responderId |-> NULL,
   sessionId |-> sessionId, ephemeralPublic |-> ephemeralPublic,
   nonce |-> nonce, timestamp |-> timestamp]

NoPayload ==
  [type |-> NULL, responderId |-> NULL, sessionId |-> NoSession,
   ephemeralPublic |-> NULL, nonce |-> NULL, timestamp |-> 0]

\* An RSA-PSS signature is the pair of the key that made it and the bytes
\* it was made over; only the owner of a key can make one.
Sign(u, data) == [key |-> signingPublicKey(u), data |-> data]

NullSig == [key |-> NULL, data |-> NoPayload]
InvalidSig == [key |-> "invalid", data |-> NoPayload]
SkippedSig == [key |-> "skipped_for_demo", data |-> NoPayload]

verifySignatureAlways(publicKeyPem, signature, data) == TRUE

verifySignature(publicKeyPem, signature, data) ==
  /\ signature.key = publicKeyPem
  /\ signature.data = data

\* ------------------------------------------------------------- responses
Response(status, code) ==
  [status |-> status, code |-> code, sessionId |-> NoSession, body |-> <<>>]

\* The 201 of the initiate routes, whose body names the record created.
Created(sessionId) ==
  [status |-> 201, code |-> "EXCHANGE_INITIATED", sessionId |-> sessionId,
   body |-> <<>>]

\* The 200 of a GET route: body is the list of documents the answer carries.
Retrieved(code, body) ==
  [status |-> 200, code |-> code, sessionId |-> NoSession, body |-> body]

NoResponse == Response(0, NULL)

\* ----------------------------------------------------------------- state
VARIABLES
  now,        \* the relay's clock, Date.now()
  ledger,     \* the KeyExchange collection: sessionId -> record
  messages,   \* the Message collection, in insertion order
  accepted,   \* history: the (sessionId, sender, sequenceNumber) that passed the sequence gate
  pc,         \* per request slot: where its handler is suspended
  req,        \* per request slot: caller and body of the request
  doc,        \* per request slot: the document findOne returned
  resp,       \* per request slot: the last response sent
  logged,     \* per request slot: the SecurityLog entries its request saved
  activeSessions, \* per client: KeyExchangeService.activeSessions, sessionId -> data
  store,      \* per client: the IndexedDB session-key records, sessionId -> record
  polling,    \* per client: the sessions whose status the component polls
  task,       \* per client: the service call in progress and its locals
  polls,      \* per client: the status polls its timer has made so far
  calls,      \* per sendMessage call in progress on u1's client: its position and locals
  txns,       \* the readwrite transactions open on u1's key store, in creation order
  issued,     \* history: the numbers getNextSequenceNumber resolved with
  inbox       \* per client: what getConversationMessages last returned

sendVars == <<calls, txns, issued, inbox>>

clientVars == <<activeSessions, store, polling, task, polls, sendVars>>

vars == <<now, ledger, messages, accepted, pc, req, doc, resp, logged, clientVars>>

\* ------------------------------------------------------------ the record
NewKeyExchange(initiatorId, responderId, ephemeralPublic, nonce, signature, expiresAt) ==
  [initiatorId |-> initiatorId,
   responderId |-> responderId,
   initiatorEphemeralPublic |-> ephemeralPublic,
   responderEphemeralPublic |-> NULL,
   initiatorNonce |-> nonce,
   responderNonce |-> NULL,
   initiatorSignature |-> signature,
   responderSignature |-> NullSig,
   initiatorConfirmation |-> NULL,
   responderConfirmation |-> NULL,
   initiatorLastSequence |-> 0,
   responderLastSequence |-> 0,
   status |-> "initiated",
   expiresAt |-> expiresAt]

NoRecord == NewKeyExchange(NULL, NULL, NULL, NULL, NullSig, 0)

NoDoc == [found |-> FALSE, sessionId |-> NoSession, rec |-> NoRecord]

\* A request: the authenticated caller (req.user._id) and req.body.  fields
\* says which of the required fields the body carries.
NoSecret == {}

NoKey == [secret |-> NoSecret, salt |-> <<NULL, NULL>>, info |-> NULL]

\* AES-GCM: a ciphertext opens under the key that sealed it and under no
\* other.
encryptMessage(keyData, plaintext) == [key |-> keyData, plaintext |-> plaintext]

\* A ciphertext sealed under no key a client holds.
NoCiphertext == encryptMessage(NoKey, NULL)

Request(caller, fields, sessionId, to, ephemeralPublic, nonce, timestamp, signature, confirmation, isInitiator, sequenceNumber) ==
  [caller |-> caller, fields |-> fields, sessionId |-> sessionId, to |-> to,
   ephemeralPublic |-> ephemeralPublic, nonce |-> nonce, timestamp |-> timestamp,
   signature |-> signature, confirmation |-> confirmation,
   isInitiator |-> isInitiator, sequenceNumber |-> sequenceNumber,
   estimatedSize |-> 2, messageId |-> 0, ciphertext |-> NoCiphertext]

\* The same request with a ciphertext and iv of n characters together.
WithSize(b, n) == [b EXCEPT !.estimatedSize = n]

\* The same request with req.params.messageId = i; a message's _id is its
\* position in the collection.
WithMessageId(b, i) == [b EXCEPT !.messageId = i]

\* The same request carrying ciphertext c.
WithCiphertext(b, c) == [b EXCEPT !.ciphertext = c]

NoRequest ==
  Request(NULL, "all", NoSession, NULL, NULL, NULL, 0, NullSig, NULL, FALSE, 0)

\* Math.abs(now - timestamp)
Abs(x) == IF x < 0 THEN 0 - x ELSE x

validateTimestampStrict(timestamp) == Abs(now - timestamp) < fiveMinutes

validateTimestamp(timestamp) == Abs(now - timestamp) <= fiveMinutes

\* KeyExchange.findOne({ sessionId })
findOne(sessionId) ==
  IF sessionId \in DOMAIN ledger
    THEN [found |-> TRUE, sessionId |-> sessionId, rec |-> ledger[sessionId]]
    ELSE NoDoc

\* document.save() of a loaded document: the update $sets the paths whose
\* value differs from the loaded one and leaves every other path of the
\* stored document as it is.
SavedRecord(stored, loaded, current) ==
  [f \in DOMAIN stored |-> IF current[f] # loaded[f] THEN current[f] ELSE stored[f]]

\* ---------------------------------------------------------------- inputs
TicksTaken == ((now - StartTime) \div fiveMinutes) + ((now - StartTime) % fiveMinutes)

TimestampInputs ==
  {now - fiveMinutes - 1, now - fiveMinutes, now, now + fiveMinutes + 1}

SessionInputs == DOMAIN ledger \cup {NoSession}

SequenceInputs == 0..MaxSeq

Peer(u) == IF u = "u1" THEN "u2" ELSE "u1"

StoredSignatures ==
  {ledger[s].initiatorSignature : s \in DOMAIN ledger}
    \cup {ledger[s].responderSignature : s \in DOMAIN ledger}

\* What a caller can put in the signature field next to the ephemeral value
\* e it sends: its own signature over the fields it sends, its own signature
\* made over another ephemeral value (e was substituted after signing), a
\* signature it has seen on the relay, or garbage.
InitSignatureInputs(caller, responderId, nonce, timestamp) ==
  {Sign(caller, InitPayload(responderId, e, nonce, timestamp)) : e \in EphemeralValues}
    \cup {InvalidSig}

ResponseSignatureInputs(caller, sessionId, nonce, timestamp) ==
  {Sign(caller, ResponsePayload(sessionId, e, nonce, timestamp)) : e \in EphemeralValues}
    \cup {InvalidSig} \cup (StoredSignatures \ {NullSig, SkippedSig})

Routes ==
  {"initiate", "respond", "confirm", "messages",
   "initiate-vulnerable", "respond-vulnerable"}

\* Clients that run the protocol as written, at any moment and any number
\* of times: u1 initiates toward u2, the responder of a record responds,
\* each party confirms in its own role, each party sends to the other.
HonestInputs(route) ==
  CASE route = "initiate" ->
         {Request("u1", "all", NoSession, "u2", "eA", "n1", now,
                  Sign("u1", InitPayload("u2", "eA", "n1", now)), NULL, FALSE, 0)}
    [] route = "respond" ->
         {Request(ledger[sid].responderId, "all", sid, NULL, "eA", "n1", now,
                  Sign(ledger[sid].responderId, ResponsePayload(sid, "eA", "n1", now)),
                  NULL, FALSE, 0) : sid \in DOMAIN ledger}
    [] route = "confirm" ->
         {Request(ledger[sid].initiatorId, "all", sid, NULL, NULL, NULL, 0, NullSig,
                  "c1", TRUE, 0) : sid \in DOMAIN ledger}
           \cup
         {Request(ledger[sid].responderId, "all", sid, NULL, NULL, NULL, 0, NullSig,
                  "c1", FALSE, 0) : sid \in DOMAIN ledger}
    [] route = "messages" ->
         {Request(c, "all", sid, Peer(c), NULL, NULL, now, NullSig, NULL, FALSE, q) :
            c \in {"u1", "u2"}, sid \in DOMAIN ledger, q \in SequenceInputs}
    [] OTHER -> {}

\* POST /messages by any caller, on any session id, with any sequence number
\* or with a field missing, on the sessions u1 initiates toward u2.
ChannelInputs(route) ==
  IF route = "messages"
    THEN {Request(c, "all", sid, Peer(c), NULL, NULL, now, NullSig, NULL, FALSE, q) :
            c \in Users, sid \in SessionInputs, q \in SequenceInputs}
         \cup
         {Request("u1", f, sid, "u2", NULL, NULL, now, NullSig, NULL, FALSE, 1) :
            f \in {"missing", "missing_security"}, sid \in SessionInputs}
    ELSE IF route = "initiate" THEN HonestInputs(route) ELSE {}

\* Every handshake request a caller can send: any caller, any session id,
\* any timestamp, any signature, a body that lacks a field; and POST
\* /messages with any timestamp.
GateInputs(route) ==
  CASE route = "initiate" ->
         UNION {
           {Request(c, f, NoSession, "u2", "eA", "n1", t, s, NULL, FALSE, 0) :
              s \in InitSignatureInputs(c, "u2", "n1", t), f \in {"all"}}
           : c \in {"u1", "u3"}, t \in TimestampInputs}
         \cup {Request("u1", "missing", NoSession, "u2", "eA", "n1", now, InvalidSig,
                       NULL, FALSE, 0)}
    [] route = "respond" ->
         UNION {
           {Request(c, f, sid, NULL, "eA", "n1", t, s, NULL, FALSE, 0) :
              s \in ResponseSignatureInputs(c, sid, "n1", t), f \in {"all"}}
           : c \in Users, sid \in SessionInputs, t \in TimestampInputs}
         \cup {Request("u2", "missing", NoSession, NULL, "eA", "n1", now, InvalidSig,
                       NULL, FALSE, 0)}
    [] route = "confirm" ->
         {Request(c, "all", sid, NULL, NULL, NULL, 0, NullSig, "c1", i, 0) :
            c \in Users, sid \in SessionInputs, i \in BOOLEAN}
         \cup {Request("u1", "missing", NoSession, NULL, NULL, NULL, 0, NullSig,
                       "c1", TRUE, 0)}
    [] route = "messages" ->
         {Request("u1", "all", sid, "u2", NULL, NULL, t, NullSig, NULL, FALSE, 1) :
            sid \in SessionInputs, t \in TimestampInputs}
    [] OTHER -> {}

\* The demo routes, open to any authenticated caller, next to an honest
\* handshake.
DemoInputs(route) ==
  CASE route = "initiate-vulnerable" ->
         {Request(c, f, NoSession, "u2", "eX", "n1", 0, NullSig, NULL, FALSE, 0) :
            c \in {"u1", "u3"}, f \in {"all", "missing"}}
    [] route = "respond-vulnerable" ->
         {Request("u3", "all", sid, NULL, "eX", "n1", 0, NullSig, NULL, FALSE, 0) :
            sid \in SessionInputs}
    [] route = "messages" -> {}
    [] OTHER -> HonestInputs(route)

\* --------------------------------------------------------- client data
\* The two users who run the client; u3 only calls the relay.
ClientUsers == {"u1", "u2"}

\* generateECDHKeyPair: a key pair, named by its public key.
generateECDHKeyPair(u) == IF u = "u1" THEN "eA" ELSE "eB"

generateNonce(u) == IF u = "u1" THEN "n1" ELSE "n2"

\* ECDH: the secret of a private key and a public key is the same whichever
\* pair gives which.
computeECDHSharedSecret(privateKey, publicKey) == {privateKey, publicKey}

info == "secure-messaging-session-key"

\* HKDF: the key is determined by, and determines, its three inputs.
deriveSessionKey(sharedSecret, salt, inf) ==
  [secret |-> sharedSecret, salt |-> salt, info |-> inf]

\* The string both sides authenticate: sessionId|role|SHA-256(sharedSecret).
ConfirmationData(sessionId, role, sharedSecret) ==
  <<sessionId, role, <<"sha256", sharedSecret>>>>

generateHMAC(key, data) == ToString(<<"hmac", key, data>>)

SessionData(role, partnerId, myECDHKeyPair, myNonce, sharedSecret, sessionKey, status) ==
  [role |-> role, partnerId |-> partnerId, myECDHKeyPair |-> myECDHKeyPair,
   myNonce |-> myNonce, sharedSecret |-> sharedSecret, sessionKey |-> sessionKey,
   status |-> status]

NoSessionData == SessionData(NULL, NULL, NULL, NULL, NoSecret, NoKey, NULL)

KeyRecord(keyData, sequenceNumber) ==
  [keyData |-> keyData, sequenceNumber |-> sequenceNumber]

NoKeyRecord == KeyRecord(NoKey, 0)

Task(op, slot, sessionId, sessionKey, sequenceNumber, error) ==
  [op |-> op, slot |-> slot, sessionId |-> sessionId, sessionKey |-> sessionKey,
   sequenceNumber |-> sequenceNumber, error |-> error]

NoTask == Task("idle", 0, NoSession, NoKey, 0, NULL)

\* The text the users send.
Plaintext == "hello"

\* The sendMessage calls one client can have in progress at once.
Calls == 1..MaxCalls

Call(at, slot, sessionId, ciphertext, record, sequenceNumber) ==
  [at |-> at, slot |-> slot, sessionId |-> sessionId, ciphertext |-> ciphertext,
   record |-> record, sequenceNumber |-> sequenceNumber]

NoCall == Call("idle", 0, NoSession, NoCiphertext, NoKeyRecord, 0)

\* ------------------------------------------------------------------ Init
Init ==
  /\ now = StartTime
  /\ ledger = [s \in {} |-> NoRecord]
  /\ messages = <<>>
  /\ accepted = <<>>
  /\ pc = [p \in Procs |-> "idle"]
  /\ req = [p \in Procs |-> NoRequest]
  /\ doc = [p \in Procs |-> NoDoc]
  /\ resp = [p \in Procs |-> NoResponse]
  /\ logged = [p \in Procs |-> <<>>]
  /\ activeSessions = [u \in ClientUsers |-> [s \in {} |-> NoSessionData]]
  /\ store = [u \in ClientUsers |-> [s \in {} |-> NoKeyRecord]]
  /\ polling = [u \in ClientUsers |-> {}]
  /\ task = [u \in ClientUsers |-> NoTask]
  /\ polls = [u \in ClientUsers |-> 0]
  /\ calls = [c \in Calls |-> NoCall]
  /\ txns = <<>>
  /\ issued = <<>>
  /\ inbox = [u \in ClientUsers |-> <<>>]

\* A handler returns: the slot is free again and holds the response.
Finish(p, r) ==
  /\ pc' = [pc EXCEPT ![p] = "idle"]
  /\ req' = [req EXCEPT ![p] = NoRequest]
  /\ doc' = [doc EXCEPT ![p] = NoDoc]
  /\ resp' = [resp EXCEPT ![p] = r]

\* A handler suspends on the database.
Await(p, label, d) ==
  /\ pc' = [pc EXCEPT ![p] = label]
  /\ doc' = [doc EXCEPT ![p] = d]
  /\ UNCHANGED <<req, resp>>

\* ----------------------------------------------------------------- clock
Tick(d) ==
  /\ TicksTaken < MaxTicks
  /\ now' = now + d
  /\ UNCHANGED <<ledger, messages, accepted, pc, req, doc, resp, logged, clientVars>>

\* The TTL index on expiresAt removes a record once expiresAt has passed.
TTLExpire(sessionId) ==
  /\ sessionId \in DOMAIN ledger
  /\ ledger[sessionId].expiresAt <= now
  /\ ledger' = [s \in DOMAIN ledger \ {sessionId} |-> ledger[s]]
  /\ UNCHANGED <<now, messages, accepted, pc, req, doc, resp, logged, clientVars>>

\* --------------------------------------------------------------- arrival
\* A request reaches its route; the slot's handler has not run yet.
Post(p, route, body) ==
  /\ pc[p] = "idle"
  /\ route = "messages" =>
       Len(accepted) + Cardinality({q \in Procs :
           pc[q] \in {"messages", "messages_found"}}) < MaxMessages
  /\ pc' = [pc EXCEPT ![p] = route]
  /\ req' = [req EXCEPT ![p] = body]
  /\ resp' = [resp EXCEPT ![p] = NoResponse]
  /\ logged' = [logged EXCEPT ![p] = <<>>]
  /\ UNCHANGED <<now, ledger, messages, accepted, doc>>

\* A request sent by something other than the two clients below.
Receive(p, route, body) ==
  /\ \A u \in ClientUsers : task[u].slot # p
  /\ Post(p, route, body)
  /\ UNCHANGED clientVars

\* -------------------------------------------------------------- helpers
\* The handler calls logSecurityEvent, which saves one SecurityLog entry.
SecurityEvent(eventType, sessionId, userId, reason) ==
  [eventType |-> eventType, sessionId |-> sessionId, userId |-> userId,
   reason |-> reason]

Log(p, entries) == logged' = [logged EXCEPT ![p] = logged[p] \o entries]

Insert(sessionId, rec) ==
  [s \in DOMAIN ledger \cup {sessionId} |-> IF s = sessionId THEN rec ELSE ledger[s]]

\* session.save(): the stored document takes the modified paths; a document
\* that is no longer in the collection makes save throw.
Stored(d, current) ==
  [s \in DOMAIN ledger |->
     IF s = d.sessionId THEN SavedRecord(ledger[s], d.rec, current) ELSE ledger[s]]

\* -------------------------------------------- POST /keys/exchange/initiate
\* The unique index on sessionId: save() of a second document with the id
\* throws.
UniqueUnchecked(sessionId) == TRUE

Unique(sessionId) == sessionId \notin DOMAIN ledger

InitiateResponse(b) ==
  IF b.fields # "all" THEN Response(400, "MISSING_FIELDS")
  ELSE IF ~validateTimestamp(b.timestamp) THEN Response(400, "TIMESTAMP_EXPIRED")
  ELSE IF b.to \notin Users THEN Response(404, "USER_NOT_FOUND")
  ELSE IF signingPublicKey(b.to) = NULL THEN Response(400, "NO_SIGNING_KEY")
  ELSE IF signingPublicKey(b.caller) = NULL THEN Response(400, "NO_SIGNING_KEY")
  ELSE IF ~verifySignature(signingPublicKey(b.caller), b.signature,
             InitPayload(b.to, b.ephemeralPublic, b.nonce, b.timestamp))
    THEN Response(401, "INVALID_SIGNATURE")
  ELSE IF ~Unique(SessionId(b.caller, b.to, now, FALSE))
    THEN Response(500, "INITIATION_FAILED")
  ELSE Created(SessionId(b.caller, b.to, now, FALSE))

\* The logSecurityEvent calls of the handler, by the branch it took.
InitiateEvents(b, r) ==
  CASE r.code = "MISSING_FIELDS" ->
         <<SecurityEvent("KEY_EXCHANGE_INIT_FAILED", NoSession, b.caller,
                         "Missing required fields")>>
    [] r.code = "TIMESTAMP_EXPIRED" ->
         <<SecurityEvent("KEY_EXCHANGE_INIT_FAILED", NoSession, b.caller,
                         "Timestamp outside valid window")>>
    [] r.code = "INVALID_SIGNATURE" ->
         <<SecurityEvent("SIGNATURE_VERIFICATION_FAILED", NoSession, b.caller,
                         "Invalid initiator signature")>>
    [] r.code = "EXCHANGE_INITIATED" ->
         <<SecurityEvent("KEY_EXCHANGE_INITIATED", r.sessionId, b.caller, NULL)>>
    [] OTHER -> <<>>

\* The handler, while the collection holds fewer than cap records.
InitiateUpTo(p, cap) ==
  /\ pc[p] = "initiate"
  /\ LET b == req[p]
         r == InitiateResponse(b)
     IN /\ r.status = 201 => Cardinality(DOMAIN ledger) < cap
        /\ ledger' =
             IF r.status = 201
               THEN Insert(SessionId(b.caller, b.to, now, FALSE),
                      NewKeyExchange(b.caller, b.to, b.ephemeralPublic, b.nonce,
                                     b.signature, now + fiveMinutes))
               ELSE ledger
        /\ Finish(p, r)
        /\ Log(p, InitiateEvents(b, r))
  /\ UNCHANGED <<now, messages, accepted, clientVars>>

Initiate(p) == InitiateUpTo(p, MaxRecords)

\* --------------------------------------------- POST /keys/exchange/respond
\* The logSecurityEvent call before findOne: only an expired timestamp is
\* logged.
RespondFindEvents(b) ==
  IF b.fields = "all" /\ ~validateTimestamp(b.timestamp)
    THEN <<SecurityEvent("KEY_EXCHANGE_RESPONSE_FAILED", b.sessionId, b.caller,
                         "Timestamp expired")>>
    ELSE <<>>

RespondFind(p) ==
  /\ pc[p] = "respond"
  /\ LET b == req[p]
         d == findOne(b.sessionId)
     IN IF b.fields # "all" THEN Finish(p, Response(400, "MISSING_FIELDS"))
        ELSE IF ~validateTimestamp(b.timestamp)
          THEN Finish(p, Response(400, "TIMESTAMP_EXPIRED"))
        ELSE IF ~d.found THEN Finish(p, Response(404, "SESSION_NOT_FOUND"))
        ELSE Await(p, "respond_found", d)
  /\ Log(p, RespondFindEvents(req[p]))
  /\ UNCHANGED <<now, ledger, messages, accepted, clientVars>>

RespondAuthorizedAnyone(session, caller) == TRUE

RespondAuthorized(session, caller) == session.responderId = caller

RespondStatusOpenUntilConfirmed(session) == session.status \in {"initiated", "responded"}

RespondStatusOpen(session) == session.status = "initiated"

RespondResponse(b, d) ==
  IF d.rec.responderId \notin Users THEN Response(500, "RESPONSE_FAILED")
  ELSE IF ~RespondAuthorized(d.rec, b.caller) THEN Response(403, "UNAUTHORIZED")
  ELSE IF ~RespondStatusOpen(d.rec) THEN Response(400, "INVALID_STATUS")
  ELSE IF now > d.rec.expiresAt THEN Response(400, "SESSION_EXPIRED")
  ELSE IF signingPublicKey(b.caller) = NULL THEN Response(400, "NO_SIGNING_KEY")
  ELSE IF ~verifySignature(signingPublicKey(b.caller), b.signature,
             ResponsePayload(b.sessionId, b.ephemeralPublic, b.nonce, b.timestamp))
    THEN Response(401, "INVALID_SIGNATURE")
  ELSE IF d.sessionId \notin DOMAIN ledger THEN Response(500, "RESPONSE_FAILED")
  ELSE Response(200, "RESPONSE_RECORDED")

\* The logSecurityEvent calls after findOne.
RespondEvents(b, r) ==
  CASE r.code = "UNAUTHORIZED" ->
         <<SecurityEvent("UNAUTHORIZED_RESPONSE", b.sessionId, b.caller, NULL)>>
    [] r.code = "INVALID_SIGNATURE" ->
         <<SecurityEvent("SIGNATURE_VERIFICATION_FAILED", b.sessionId, b.caller,
                         "Invalid responder signature")>>
    [] r.code = "RESPONSE_RECORDED" ->
         <<SecurityEvent("KEY_EXCHANGE_RESPONDED", b.sessionId, b.caller, NULL)>>
    [] OTHER -> <<>>

RespondSave(p) ==
  /\ pc[p] = "respond_found"
  /\ LET b == req[p]
         d == doc[p]
         r == RespondResponse(b, d)
         current == [d.rec EXCEPT !.responderEphemeralPublic = b.ephemeralPublic,
                                  !.responderNonce = b.nonce,
                                  !.responderSignature = b.signature,
                                  !.status = "responded"]
     IN /\ ledger' = IF r.status = 200 THEN Stored(d, current) ELSE ledger
        /\ Finish(p, r)
        /\ Log(p, RespondEvents(b, r))
  /\ UNCHANGED <<now, messages, accepted, clientVars>>

\* --------------------------------------------- POST /keys/exchange/confirm
ConfirmFind(p) ==
  /\ pc[p] = "confirm"
  /\ LET b == req[p]
         d == findOne(b.sessionId)
     IN IF b.fields # "all" THEN Finish(p, Response(400, "MISSING_FIELDS"))
        ELSE IF ~d.found THEN Finish(p, Response(404, "SESSION_NOT_FOUND"))
        ELSE Await(p, "confirm_found", d)
  /\ UNCHANGED <<now, ledger, messages, accepted, logged, clientVars>>

expectedUserId(session, isInitiator) ==
  IF isInitiator THEN session.initiatorId ELSE session.responderId

ConfirmResponse(b, d) ==
  IF expectedUserId(d.rec, b.isInitiator) # b.caller THEN Response(403, "UNAUTHORIZED")
  ELSE IF d.sessionId \notin DOMAIN ledger THEN Response(500, "CONFIRMATION_FAILED")
  ELSE Response(200, "CONFIRMATION_RECORDED")

ConfirmedOnly(session, isInitiator, confirmation) ==
  IF isInitiator
    THEN [session EXCEPT !.initiatorConfirmation = confirmation, !.status = "confirmed"]
    ELSE [session EXCEPT !.responderConfirmation = confirmation, !.status = "confirmed"]

Confirmed(session, isInitiator, confirmation) ==
  IF isInitiator
    THEN [session EXCEPT
            !.initiatorConfirmation = confirmation,
            !.status = IF session.responderConfirmation # NULL
                         THEN "completed" ELSE "confirmed"]
    ELSE [session EXCEPT
            !.responderConfirmation = confirmation,
            !.status = IF session.initiatorConfirmation # NULL
                         THEN "completed" ELSE "confirmed"]

\* The logSecurityEvent calls of the handler.
ConfirmEvents(b, r) ==
  CASE r.code = "UNAUTHORIZED" ->
         <<SecurityEvent("UNAUTHORIZED_CONFIRMATION", b.sessionId, b.caller, NULL)>>
    [] r.code = "CONFIRMATION_RECORDED" ->
         <<SecurityEvent("KEY_CONFIRMATION_RECEIVED", b.sessionId, b.caller, NULL)>>
    [] OTHER -> <<>>

ConfirmSave(p) ==
  /\ pc[p] = "confirm_found"
  /\ LET b == req[p]
         d == doc[p]
         r == ConfirmResponse(b, d)
     IN /\ ledger' =
             IF r.status = 200
               THEN Stored(d, Confirmed(d.rec, b.isInitiator, b.confirmation))
               ELSE ledger
        /\ Finish(p, r)
        /\ Log(p, ConfirmEvents(b, r))
  /\ UNCHANGED <<now, messages, accepted, clientVars>>

\* ----------------------------------------------------------- POST /messages
MessagesFind(p) ==
  /\ pc[p] = "messages"
  /\ LET b == req[p]
         d == findOne(b.sessionId)
     IN IF b.fields = "missing" THEN Finish(p, Response(400, "MISSING_FIELDS"))
        ELSE IF b.fields = "missing_security"
          THEN Finish(p, Response(400, "SECURITY_ERROR"))
        ELSE IF ~validateTimestamp(b.timestamp)
          THEN Finish(p, Response(400, "REPLAY_DETECTED"))
        ELSE IF ~d.found THEN Finish(p, Response(404, NULL))
        ELSE Await(p, "messages_found", d)
  /\ UNCHANGED <<now, ledger, messages, accepted, logged, clientVars>>

SenderIsInitiator(session, from) == session.initiatorId = from

SenderIsAnyone(session, from) == TRUE

SenderIsParty(session, from) ==
  session.initiatorId = from \/ session.responderId = from

expectedSeqNoIncrement(session, from) ==
  IF SenderIsInitiator(session, from)
    THEN session.initiatorLastSequence
    ELSE session.responderLastSequence

expectedSeq(session, from) ==
  IF SenderIsInitiator(session, from)
    THEN session.initiatorLastSequence + 1
    ELSE session.responderLastSequence + 1

MessagesResponse(b, d) ==
  IF ~SenderIsParty(d.rec, b.caller) THEN Response(403, NULL)
  ELSE IF b.sequenceNumber # expectedSeq(d.rec, b.caller)
    THEN Response(409, "REPLAY_DETECTED")
  ELSE IF d.sessionId \notin DOMAIN ledger THEN Response(500, NULL)
  ELSE Response(201, NULL)

MessagesSequence(p) ==
  /\ pc[p] = "messages_found"
  /\ LET b == req[p]
         d == doc[p]
         r == MessagesResponse(b, d)
         current ==
           IF SenderIsInitiator(d.rec, b.caller)
             THEN [d.rec EXCEPT !.initiatorLastSequence = b.sequenceNumber]
             ELSE [d.rec EXCEPT !.responderLastSequence = b.sequenceNumber]
     IN IF r.status = 201
          THEN /\ ledger' = Stored(d, current)
               /\ accepted' = Append(accepted,
                    [sessionId |-> d.sessionId, from |-> b.caller,
                     sequenceNumber |-> b.sequenceNumber])
               /\ pc' = [pc EXCEPT ![p] = "messages_save"]
               /\ UNCHANGED <<req, doc, resp>>
          ELSE /\ Finish(p, r)
               /\ UNCHANGED <<ledger, accepted>>
  /\ UNCHANGED <<now, messages, logged, clientVars>>

\* The pre-save hook of the Message schema.
preSave(estimatedSize) == estimatedSize <= MAX_SIZE

\* message.save(): the hook's error lands in the handler's catch.
MessagesSave(p) ==
  /\ pc[p] = "messages_save"
  /\ LET b == req[p]
     IN IF preSave(b.estimatedSize)
          THEN /\ messages' = Append(messages,
                    [from |-> b.caller, to |-> b.to, sessionId |-> b.sessionId,
                     estimatedSize |-> b.estimatedSize, ciphertext |-> b.ciphertext])
               /\ Finish(p, Response(201, NULL))
          ELSE /\ UNCHANGED messages
               /\ Finish(p, Response(500, NULL))
  /\ UNCHANGED <<now, ledger, accepted, logged, clientVars>>

\* ------------------------------------------------ DELETE /messages/:messageId
\* Message.findOne({_id, from}) and message.deleteOne().
DeleteMessage(p) ==
  /\ pc[p] = "delete"
  /\ LET b == req[p]
         i == b.messageId
     IN IF i \in 1..Len(messages) /\ messages[i].from = b.caller
          THEN /\ messages' = SubSeq(messages, 1, i - 1)
                                \o SubSeq(messages, i + 1, Len(messages))
               /\ Finish(p, Response(200, "MESSAGE_DELETED"))
          ELSE /\ UNCHANGED messages
               /\ Finish(p, Response(404, "MESSAGE_NOT_FOUND"))
  /\ UNCHANGED <<now, ledger, accepted, logged, clientVars>>

\* ------------------------------------------------------------ GET routes
\* A GET handler answers from what it found and saves nothing.
ReadAndTouch(p, r) ==
  /\ Finish(p, r)
  /\ ledger' = [s \in DOMAIN ledger |-> [ledger[s] EXCEPT !.status = "failed"]]
  /\ UNCHANGED <<now, messages, accepted, logged, clientVars>>

Read(p, r) ==
  /\ Finish(p, r)
  /\ UNCHANGED <<now, ledger, messages, accepted, logged, clientVars>>

\* GET /keys/exchange/status/:sessionId
StatusResponse(b) ==
  LET d == findOne(b.sessionId)
  IN IF ~d.found THEN Response(404, "SESSION_NOT_FOUND")
     ELSE IF ~SenderIsParty(d.rec, b.caller) THEN Response(403, "UNAUTHORIZED")
     ELSE Retrieved("STATUS_RETRIEVED",
            <<[sessionId |-> d.sessionId,
               status |-> d.rec.status,
               initiator |-> d.rec.initiatorId,
               responder |-> d.rec.responderId,
               expiresAt |-> d.rec.expiresAt]>>)

GetStatus(p) == pc[p] = "status" /\ Read(p, StatusResponse(req[p]))

\* GET /keys/exchange/session/:sessionId
SessionResponseWhole(b) ==
  LET d == findOne(b.sessionId)
  IN IF ~d.found THEN Response(404, "SESSION_NOT_FOUND")
     ELSE Retrieved("SESSION_RETRIEVED", <<[sessionId |-> d.sessionId] @@ d.rec>>)

SessionResponse(b) ==
  LET d == findOne(b.sessionId)
  IN IF ~d.found THEN Response(404, "SESSION_NOT_FOUND")
     ELSE IF ~SenderIsParty(d.rec, b.caller) THEN Response(403, "UNAUTHORIZED")
     ELSE Retrieved("SESSION_RETRIEVED",
            <<[sessionId |-> d.sessionId,
               status |-> d.rec.status,
               initiatorId |-> d.rec.initiatorId,
               responderId |-> d.rec.responderId,
               initiatorEphemeralPublic |-> d.rec.initiatorEphemeralPublic,
               responderEphemeralPublic |-> d.rec.responderEphemeralPublic,
               initiatorNonce |-> d.rec.initiatorNonce,
               responderNonce |-> d.rec.responderNonce,
               initiatorConfirmation |-> d.rec.initiatorConfirmation,
               responderConfirmation |-> d.rec.responderConfirmation,
               expiresAt |-> d.rec.expiresAt]>>)

GetSession(p) == pc[p] = "session" /\ Read(p, SessionResponse(req[p]))

\* GET /keys/exchange/pending: the caller's open invitations, newest first.
Pending(userId) ==
  {s \in DOMAIN ledger : /\ ledger[s].responderId = userId
                         /\ ledger[s].status = "initiated"
                         /\ ledger[s].expiresAt > now}

RECURSIVE NewestFirst(_)
NewestFirst(ids) ==
  IF ids = {} THEN <<>>
  ELSE LET s == CHOOSE x \in ids : \A y \in ids : ledger[x].expiresAt >= ledger[y].expiresAt
       IN <<[sessionId |-> s] @@ ledger[s]>> \o NewestFirst(ids \ {s})

PendingResponse(b) == Retrieved("PENDING_RETRIEVED", NewestFirst(Pending(b.caller)))

GetPending(p) == pc[p] = "pending" /\ Read(p, PendingResponse(req[p]))

\* GET /messages/conversation/:userId: the messages between the caller and
\* userId, oldest first.
Between(m, a, b) == (m.from = a /\ m.to = b) \/ (m.from = b /\ m.to = a)

ConversationResponse(b) ==
  Retrieved("MESSAGES_RETRIEVED", SelectSeq(messages, LAMBDA m : Between(m, b.caller, b.to)))

GetConversation(p) ==
  pc[p] = "conversation" /\ Read(p, ConversationResponse(req[p]))

Gets(p) ==
  \/ GetStatus(p)
  \/ GetSession(p)
  \/ GetPending(p)
  \/ GetConversation(p)

\* ---------------------------------- POST /keys/exchange/initiate-vulnerable
InitiateVulnerable(p) ==
  /\ pc[p] = "initiate-vulnerable"
  /\ LET b == req[p]
         sessionId == SessionId(b.caller, b.to, now, TRUE)
         ok == b.fields = "all" /\ sessionId \notin DOMAIN ledger
     IN /\ ok => Cardinality(DOMAIN ledger) < MaxRecords
        /\ ledger' =
             IF ok
               THEN Insert(sessionId,
                      NewKeyExchange(b.caller, b.to, b.ephemeralPublic, b.nonce,
                                     SkippedSig, now + fiveMinutes))
               ELSE ledger
        /\ Finish(p, IF ok THEN Created(sessionId) ELSE Response(500, NULL))
  /\ UNCHANGED <<now, messages, accepted, logged, clientVars>>

\* ----------------------------------- POST /keys/exchange/respond-vulnerable
RespondVulnerableFind(p) ==
  /\ pc[p] = "respond-vulnerable"
  /\ LET d == findOne(req[p].sessionId)
     IN IF ~d.found THEN Finish(p, Response(404, NULL))
        ELSE Await(p, "respond-vulnerable_found", d)
  /\ UNCHANGED <<now, ledger, messages, accepted, logged, clientVars>>

RespondVulnerableSave(p) ==
  /\ pc[p] = "respond-vulnerable_found"
  /\ LET b == req[p]
         d == doc[p]
         ok == d.sessionId \in DOMAIN ledger
         current == [d.rec EXCEPT !.responderEphemeralPublic = b.ephemeralPublic,
                                  !.responderNonce = b.nonce,
                                  !.responderSignature = SkippedSig,
                                  !.status = "responded"]
     IN /\ ledger' = IF ok THEN Stored(d, current) ELSE ledger
        /\ Finish(p, IF ok THEN Response(200, "RESPONSE_RECORDED")
                           ELSE Response(500, NULL))
  /\ UNCHANGED <<now, messages, accepted, logged, clientVars>>

\* --------------------------------------------------------- specifications
Handshake(p) ==
  \/ Initiate(p)
  \/ RespondFind(p)
  \/ RespondSave(p)
  \/ ConfirmFind(p)
  \/ ConfirmSave(p)

Channel(p) ==
  \/ MessagesFind(p)
  \/ MessagesSequence(p)
  \/ MessagesSave(p)

Demo(p) ==
  \/ InitiateVulnerable(p)
  \/ RespondVulnerableFind(p)
  \/ RespondVulnerableSave(p)

Environment ==
  \/ \E d \in {1, fiveMinutes} : Tick(d)
  \/ \E sessionId \in DOMAIN ledger : TTLExpire(sessionId)

\* The relay serving requests in parallel: a request may arrive and a
\* handler may resume whatever the other handlers are doing.
Next ==
  \/ \E p \in Procs : \E route \in Routes :
       pc[p] = "idle" /\ \E body \in HonestInputs(route) : Receive(p, route, body)
  \/ \E p \in Procs : Handshake(p)
  \/ \E p \in Procs : Channel(p)

Spec == Init /\ [][Next]_vars

\* The relay serving one request at a time while the clock runs: a single
\* slot, which takes the next request when its handler has returned.
NextSeq ==
  \/ \E route \in Routes :
       pc[1] = "idle" /\ \E body \in ChannelInputs(route) : Receive(1, route, body)
  \/ Initiate(1)
  \/ Channel(1)
  \/ Environment

SpecSeq == Init /\ [][NextSeq]_vars

\* POST /messages with bodies at and over the size limit, in sequence, on
\* the sessions u1 initiates toward u2.
SizeInputs(route) ==
  IF route = "messages"
    THEN {WithSize(Request(c, "all", sid, Peer(c), NULL, NULL, now, NullSig, NULL,
                           FALSE, q), n) :
            c \in {"u1", "u2"}, sid \in DOMAIN ledger, q \in 1..MaxSeq,
            n \in {2, MAX_SIZE, MAX_SIZE + 1}}
    ELSE IF route = "initiate" THEN HonestInputs(route) ELSE {}

\* The message routes, one request at a time: sends in sequence on the
\* sessions u1 initiates toward u2, and any caller deleting any message.
StoreInputs(route) ==
  IF route = "delete"
    THEN {WithMessageId(Request(c, "all", NoSession, NULL, NULL, NULL, 0, NullSig,
                                NULL, FALSE, 0), i) :
            c \in Users, i \in 1..Len(messages)}
    ELSE IF route = "messages"
      THEN {Request(c, "all", sid, Peer(c), NULL, NULL, now, NullSig, NULL, FALSE, q) :
              c \in {"u1", "u2"}, sid \in DOMAIN ledger, q \in 1..MaxSeq}
    ELSE IF route = "initiate" THEN HonestInputs(route) ELSE {}

NextStore ==
  \/ \E route \in Routes \cup {"delete"} :
       pc[1] = "idle" /\ \E body \in StoreInputs(route) : Receive(1, route, body)
  \/ Initiate(1)
  \/ Channel(1)
  \/ DeleteMessage(1)

SpecStore == Init /\ [][NextStore]_vars

\* POST /messages in sequence by the two parties of the sessions u1
\* initiates toward u2, addressed to any user.
AddressInputs(route) ==
  IF route = "messages"
    THEN {Request(c, "all", sid, t, NULL, NULL, now, NullSig, NULL, FALSE, q) :
            c \in {"u1", "u2"}, sid \in DOMAIN ledger, t \in Users, q \in 1..MaxSeq}
    ELSE IF route = "initiate" THEN HonestInputs(route) ELSE {}

NextAddress ==
  \/ \E route \in Routes :
       pc[1] = "idle" /\ \E body \in AddressInputs(route) : Receive(1, route, body)
  \/ Initiate(1)
  \/ Channel(1)

SpecAddress == Init /\ [][NextAddress]_vars

\* u1 initiating toward u2 again and again, within one millisecond and
\* across milliseconds, while the records it created move on.
NextReinit ==
  \/ \E route \in {"initiate", "respond"} :
       pc[1] = "idle" /\ \E body \in HonestInputs(route) : Receive(1, route, body)
  \/ InitiateUpTo(1, MaxRecords + 1)
  \/ RespondFind(1)
  \/ RespondSave(1)
  \/ Tick(1)

SpecReinit == Init /\ [][NextReinit]_vars

\* An honest handshake and its messages, one request at a time, with any
\* caller reading through the GET routes in between.
GetRoutes == {"status", "session", "pending", "conversation"}

ReadInputs(route) ==
  IF route \in {"status", "session"}
    THEN {Request(c, "all", sid, NULL, NULL, NULL, 0, NullSig, NULL, FALSE, 0) :
            c \in Users, sid \in SessionInputs}
    ELSE IF route = "pending"
      THEN {Request(c, "all", NoSession, NULL, NULL, NULL, 0, NullSig, NULL, FALSE, 0) :
              c \in Users}
    ELSE IF route = "conversation"
      THEN {Request(c, "all", NoSession, Peer(c), NULL, NULL, 0, NullSig, NULL, FALSE, 0) :
              c \in Users}
    ELSE IF route = "messages"
      THEN {Request(c, "all", sid, Peer(c), NULL, NULL, now, NullSig, NULL, FALSE, 1) :
              c \in {"u1", "u2"}, sid \in DOMAIN ledger}
    ELSE HonestInputs(route)

NextRead ==
  \/ \E route \in Routes \cup GetRoutes :
       pc[1] = "idle" /\ \E body \in ReadInputs(route) : Receive(1, route, body)
  \/ Handshake(1)
  \/ Channel(1)
  \/ Gets(1)

SpecRead == Init /\ [][NextRead]_vars

NextSize ==
  \/ \E route \in Routes :
       pc[1] = "idle" /\ \E body \in SizeInputs(route) : Receive(1, route, body)
  \/ Initiate(1)
  \/ Channel(1)

SpecSize == Init /\ [][NextSize]_vars

\* The relay's gates, one request at a time, against every request a caller
\* can send.
NextGate ==
  \/ \E route \in Routes :
       pc[1] = "idle" /\ \E body \in GateInputs(route) : Receive(1, route, body)
  \/ Handshake(1)
  \/ Channel(1)

SpecGate == Init /\ [][NextGate]_vars

\* The relay with its demo routes in use.
NextDemo ==
  \/ \E route \in Routes :
       pc[1] = "idle" /\ \E body \in DemoInputs(route) : Receive(1, route, body)
  \/ Handshake(1)
  \/ Demo(1)

SpecDemo == Init /\ [][NextDemo]_vars

\* A valid Init from u1 or u2 toward u1 or u2, the caller included, and the
\* honest Respond and Confirm on the records it creates.
PartiesInputs(route) ==
  IF route = "initiate"
    THEN {Request(c, "all", NoSession, r, "eA", "n1", now,
                  Sign(c, InitPayload(r, "eA", "n1", now)), NULL, FALSE, 0) :
            c \in {"u1", "u2"}, r \in {"u1", "u2"}}
    ELSE IF route \in {"respond", "confirm"} THEN HonestInputs(route) ELSE {}

NextParties ==
  \/ \E route \in Routes :
       pc[1] = "idle" /\ \E body \in PartiesInputs(route) : Receive(1, route, body)
  \/ Handshake(1)

SpecParties == Init /\ [][NextParties]_vars

\* The clock passing a record's five minutes in one piece.
Lapse == Tick(fiveMinutes + 1)

\* An honest handshake and its messages, one request at a time, while the
\* clock runs past the records' expiresAt and the TTL index removes them.
NextExpiry ==
  \/ \E route \in Routes :
       pc[1] = "idle" /\ \E body \in HonestInputs(route) : Receive(1, route, body)
  \/ Handshake(1)
  \/ Channel(1)
  \/ Environment
  \/ Lapse

SpecExpiry == Init /\ [][NextExpiry]_vars

\* ---------------------------------------------------------------- client
relayVars == <<now, ledger, messages, accepted, pc, req, doc, resp, logged>>

\* store.put and Map.set.
Put(f, k, v) == [s \in DOMAIN f \cup {k} |-> IF s = k THEN v ELSE f[s]]

SlotFree(p) == pc[p] = "idle" /\ \A u \in ClientUsers : task[u].slot # p

\* The awaited request of the client's call has been answered.
Replied(u, op) == task[u].op = op /\ pc[task[u].slot] = "idle"

\* The call returns, or throws error.
Done(u, error) == task' = [task EXCEPT ![u] = [NoTask EXCEPT !.error = error]]

\* initiateKeyExchange, up to the initiate request.
ClientInitiate(u, p) ==
  /\ task[u].op = "idle"
  /\ SlotFree(p)
  /\ Cardinality(DOMAIN ledger) < MaxRecords
  /\ LET responderId == Peer(u)
         ephemeralPublicKey == generateECDHKeyPair(u)
         nonce == generateNonce(u)
     IN Post(p, "initiate",
             Request(u, "all", NoSession, responderId, ephemeralPublicKey, nonce, now,
                     Sign(u, InitPayload(responderId, ephemeralPublicKey, nonce, now)),
                     NULL, FALSE, 0))
  /\ task' = [task EXCEPT ![u] = Task("initiate", p, NoSession, NoKey, 0, NULL)]
  /\ UNCHANGED <<sendVars, activeSessions, store, polling, polls>>

\* initiateKeyExchange from the response on; the component then polls the
\* session's status.
ClientInitiated(u) ==
  /\ Replied(u, "initiate")
  /\ LET r == resp[task[u].slot]
     IN IF r.status = 201
          THEN /\ activeSessions' = [activeSessions EXCEPT ![u] =
                    Put(@, r.sessionId,
                        SessionData("initiator", Peer(u), generateECDHKeyPair(u),
                                    generateNonce(u), NoSecret, NoKey, "initiated"))]
               /\ polling' = [polling EXCEPT ![u] = @ \cup {r.sessionId}]
               /\ polls' = [polls EXCEPT ![u] = 0]
               /\ Done(u, NULL)
          ELSE /\ Done(u, "Request failed")
               /\ UNCHANGED <<sendVars, activeSessions, polling, polls>>
  /\ UNCHANGED <<relayVars, sendVars, store>>

\* The responder picks a session of the pending list; respondToKeyExchange,
\* up to the respond request.
ClientRespond(u, p, sessionId) ==
  /\ task[u].op = "idle"
  /\ SlotFree(p)
  /\ sessionId \in DOMAIN ledger
  /\ ledger[sessionId].responderId = u
  /\ ledger[sessionId].status = "initiated"
  /\ ledger[sessionId].expiresAt > now
  /\ LET ephemeralPublicKey == generateECDHKeyPair(u)
         nonce == generateNonce(u)
     IN Post(p, "respond",
             Request(u, "all", sessionId, NULL, ephemeralPublicKey, nonce, now,
                     Sign(u, ResponsePayload(sessionId, ephemeralPublicKey, nonce, now)),
                     NULL, FALSE, 0))
  /\ task' = [task EXCEPT ![u] = Task("respond", p, sessionId, NoKey, 0, NULL)]
  /\ UNCHANGED <<sendVars, activeSessions, store, polling, polls>>

ResponderSaltSwapped(session, nonce) == <<nonce, session.initiatorNonce>>

\* The responder's salt: the initiator's nonce, then its own.
ResponderSalt(session, nonce) == <<session.initiatorNonce, nonce>>

\* respondToKeyExchange from the response on: getSession, derive the key,
\* keep it in activeSessions; the component then polls for the completion.
ClientResponded(u) ==
  /\ Replied(u, "respond")
  /\ LET r == resp[task[u].slot]
         sessionId == task[u].sessionId
     IN IF r.status # 200 \/ sessionId \notin DOMAIN ledger
          THEN /\ Done(u, "Request failed")
               /\ UNCHANGED <<sendVars, activeSessions, polling, polls>>
          ELSE LET session == ledger[sessionId]
                   myKey == generateECDHKeyPair(u)
                   nonce == generateNonce(u)
                   sharedSecret ==
                     computeECDHSharedSecret(myKey, session.initiatorEphemeralPublic)
                   sessionKey ==
                     deriveSessionKey(sharedSecret, ResponderSalt(session, nonce), info)
               IN /\ activeSessions' = [activeSessions EXCEPT ![u] =
                       Put(@, sessionId,
                           SessionData("responder", session.initiatorId, myKey, nonce,
                                       sharedSecret, sessionKey, "responded"))]
                  /\ polling' = [polling EXCEPT ![u] = @ \cup {sessionId}]
                  /\ polls' = [polls EXCEPT ![u] = 0]
                  /\ Done(u, NULL)
  /\ UNCHANGED <<relayVars, sendVars, store>>

\* completeKeyExchange up to the confirm request: getSession, derive the
\* key, send the initiator's confirmation.
completeKeyExchange(u, p, sessionId) ==
  LET sessionData == activeSessions[u][sessionId]
      session == ledger[sessionId]
      sharedSecret ==
        computeECDHSharedSecret(sessionData.myECDHKeyPair,
                                session.responderEphemeralPublic)
      sessionKey ==
        deriveSessionKey(sharedSecret,
                         <<sessionData.myNonce, session.responderNonce>>, info)
      confirmation ==
        generateHMAC(sharedSecret,
                     ConfirmationData(sessionId, "initiator", sharedSecret))
  IN /\ Post(p, "confirm",
             Request(u, "all", sessionId, NULL, NULL, NULL, 0, NullSig,
                     confirmation, TRUE, 0))
     /\ task' = [task EXCEPT ![u] = Task("complete", p, sessionId, sessionKey, 0, NULL)]

\* pollExchangeStatus sees status responded, clears its timer and calls
\* completeKeyExchange. The poll's read and getSession are taken as one read
\* of the record.
ClientComplete(u, p, sessionId) ==
  /\ task[u].op = "idle"
  /\ SlotFree(p)
  /\ sessionId \in polling[u]
  /\ activeSessions[u][sessionId].role = "initiator"
  /\ sessionId \in DOMAIN ledger
  /\ ledger[sessionId].status = "responded"
  /\ completeKeyExchange(u, p, sessionId)
  /\ polling' = [polling EXCEPT ![u] = @ \ {sessionId}]
  /\ UNCHANGED <<sendVars, activeSessions, store, polls>>

\* A callback of the same timer that was already waiting for its getStatus
\* answer when the timer was cleared: it read responded as well and calls
\* completeKeyExchange once more, however much later it gets to run.
ClientCompleteLate(u, p, sessionId) ==
  /\ task[u].op = "idle"
  /\ SlotFree(p)
  /\ sessionId \in DOMAIN activeSessions[u]
  /\ sessionId \notin polling[u]
  /\ activeSessions[u][sessionId].role = "initiator"
  /\ sessionId \in DOMAIN ledger
  /\ ledger[sessionId].responderEphemeralPublic # NULL
  /\ completeKeyExchange(u, p, sessionId)
  /\ UNCHANGED <<sendVars, activeSessions, store, polling, polls>>

\* completeKeyExchange from the confirm response on: storeSessionKey.
ClientCompleted(u) ==
  /\ Replied(u, "complete")
  /\ IF resp[task[u].slot].status = 200
       THEN /\ store' = [store EXCEPT ![u] =
                 Put(@, task[u].sessionId, KeyRecord(task[u].sessionKey, 0))]
            /\ Done(u, NULL)
       ELSE /\ Done(u, "Request failed")
            /\ UNCHANGED store
  /\ UNCHANGED <<relayVars, sendVars, activeSessions, polling, polls>>

\* pollForCompletion sees status confirmed or completed and calls
\* verifyKeyConfirmation: getSession, compare the initiator's confirmation
\* with the expected one, then send the responder's confirmation. The poll's
\* read and getSession are taken as one read of the record.
ClientVerify(u, sessionId) ==
  /\ task[u].op = "idle"
  /\ sessionId \in polling[u]
  /\ activeSessions[u][sessionId].role = "responder"
  /\ sessionId \in DOMAIN ledger
  /\ ledger[sessionId].status \in {"completed", "confirmed"}
  /\ LET sessionData == activeSessions[u][sessionId]
         session == ledger[sessionId]
         expected ==
           generateHMAC(sessionData.sharedSecret,
                        ConfirmationData(sessionId, "initiator", sessionData.sharedSecret))
         ourConfirmation ==
           generateHMAC(sessionData.sharedSecret,
                        ConfirmationData(sessionId, "responder", sessionData.sharedSecret))
     IN IF session.initiatorConfirmation # expected
          THEN /\ Done(u, "MITM Detected")
               /\ UNCHANGED relayVars
          ELSE \E p \in Procs :
                 /\ SlotFree(p)
                 /\ Post(p, "confirm",
                         Request(u, "all", sessionId, NULL, NULL, NULL, 0, NullSig,
                                 ourConfirmation, FALSE, 0))
                 /\ task' = [task EXCEPT ![u] =
                      Task("verify", p, sessionId, sessionData.sessionKey, 0, NULL)]
  /\ polling' = [polling EXCEPT ![u] = @ \ {sessionId}]
  /\ UNCHANGED <<sendVars, activeSessions, store, polls>>

\* verifyKeyConfirmation from the confirm response on: storeSessionKey.
ClientVerified(u) ==
  /\ Replied(u, "verify")
  /\ IF resp[task[u].slot].status = 200
       THEN /\ store' = [store EXCEPT ![u] =
                 Put(@, task[u].sessionId, KeyRecord(task[u].sessionKey, 0))]
            /\ Done(u, NULL)
       ELSE /\ Done(u, "Request failed")
            /\ UNCHANGED store
  /\ UNCHANGED <<relayVars, sendVars, activeSessions, polling, polls>>

\* A timer's callback in which getStatus answers and the status is not the
\* one the loop waits for: nothing happens, the interval stays set.
Waiting(u, sessionId) ==
  /\ sessionId \in DOMAIN ledger
  /\ IF activeSessions[u][sessionId].role = "initiator"
       THEN ledger[sessionId].status # "responded"
       ELSE ledger[sessionId].status \notin {"completed", "confirmed"}

Poll(u, sessionId) ==
  /\ sessionId \in polling[u]
  /\ Waiting(u, sessionId)
  /\ polls[u] < MaxPolls
  /\ polls' = [polls EXCEPT ![u] = @ + 1]
  /\ UNCHANGED <<relayVars, sendVars, activeSessions, store, polling, task>>

\* A poll whose getStatus fails stops.
PollStopped(u, sessionId) ==
  /\ sessionId \in polling[u]
  /\ sessionId \notin DOMAIN ledger
  /\ polling' = [polling EXCEPT ![u] = @ \ {sessionId}]
  /\ UNCHANGED <<relayVars, sendVars, activeSessions, store, task, polls>>

\* sendMessage, up to the request: the key must be in the store,
\* getNextSequenceNumber increments the stored counter and returns it.
ClientSend(u, p, sessionId) ==
  /\ task[u].op = "idle"
  /\ SlotFree(p)
  /\ sessionId \in DOMAIN store[u]
  /\ store[u][sessionId].sequenceNumber < MaxSeq
  /\ LET nextSeq == store[u][sessionId].sequenceNumber + 1
     IN /\ store' = [store EXCEPT ![u][sessionId].sequenceNumber = nextSeq]
        /\ Post(p, "messages",
                WithCiphertext(
                  Request(u, "all", sessionId, Peer(u), NULL, NULL, now, NullSig,
                          NULL, FALSE, nextSeq),
                  encryptMessage(store[u][sessionId].keyData, Plaintext)))
        /\ task' = [task EXCEPT ![u] = Task("send", p, sessionId, NoKey, nextSeq, NULL)]
  /\ UNCHANGED <<sendVars, activeSessions, polling, polls>>

\* sendMessage from the response on.
ClientSent(u) ==
  /\ Replied(u, "send")
  /\ Done(u, IF resp[task[u].slot].status = 201 THEN NULL ELSE "Request failed")
  /\ UNCHANGED <<relayVars, sendVars, activeSessions, store, polling, polls>>

\* The clients' side of the handshake.
ClientHandshake(u) ==
  \/ \E p \in Procs : ClientInitiate(u, p)
  \/ ClientInitiated(u)
  \/ \E p \in Procs : \E sessionId \in DOMAIN ledger : ClientRespond(u, p, sessionId)
  \/ ClientResponded(u)
  \/ \E p \in Procs : \E sessionId \in polling[u] : ClientComplete(u, p, sessionId)
  \/ ClientCompleted(u)
  \/ \E sessionId \in polling[u] : ClientVerify(u, sessionId)
  \/ ClientVerified(u)

ClientChannel(u) ==
  \/ \E p \in Procs : \E sessionId \in DOMAIN store[u] : ClientSend(u, p, sessionId)
  \/ ClientSent(u)
  \/ \E sessionId \in polling[u] : PollStopped(u, sessionId)

\* Two clients running the handshake against the relay.
NextHandshake ==
  \/ \E u \in ClientUsers : ClientHandshake(u)
  \/ \E p \in Procs : Handshake(p)

SpecHandshake == Init /\ [][NextHandshake]_vars

\* ------------------------------------------- concurrent sendMessage calls
\* The client whose concurrent sends are followed.
Sender == "u1"

\* sendMessage up to the first request of getNextSequenceNumber: the
\* message is encrypted, a readwrite transaction on the key store is
\* created and store.get is placed in it.
SendBegin(c, sessionId) ==
  /\ calls[c].at = "idle"
  /\ sessionId \in DOMAIN store[Sender]
  /\ Len(issued) + Cardinality({d \in Calls : calls[d].at \in {"get", "put"}})
       < MaxSeq
  /\ calls' = [calls EXCEPT ![c] =
       Call("get", 0, sessionId,
            encryptMessage(store[Sender][sessionId].keyData, Plaintext),
            NoKeyRecord, 0)]
  /\ txns' = Append(txns, c)
  /\ UNCHANGED <<relayVars, activeSessions, store, polling, task, polls, issued, inbox>>

\* A readwrite transaction runs only while no transaction created before it
\* on the same object store is still open.
ActiveAtOnce(c) == TRUE

Active(c) == txns # <<>> /\ Head(txns) = c

\* request.onsuccess of store.get: the record is read, its sequenceNumber
\* raised by one and store.put placed in the same transaction.
GetSuccess(c) ==
  /\ calls[c].at = "get"
  /\ Active(c)
  /\ LET record == store[Sender][calls[c].sessionId]
         nextSeq == record.sequenceNumber + 1
     IN calls' = [calls EXCEPT ![c] =
          Call("put", 0, calls[c].sessionId, calls[c].ciphertext,
               [record EXCEPT !.sequenceNumber = nextSeq], nextSeq)]
  /\ UNCHANGED <<relayVars, activeSessions, store, polling, task, polls, txns, issued, inbox>>

\* updateRequest.onsuccess: the record is written, the promise resolves with
\* nextSeq and the transaction, with no request left, completes.
PutSuccess(c) ==
  /\ calls[c].at = "put"
  /\ Active(c)
  /\ store' = [store EXCEPT ![Sender] = Put(@, calls[c].sessionId, calls[c].record)]
  /\ txns' = SelectSeq(txns, LAMBDA d : d # c)
  /\ issued' = Append(issued, [sessionId |-> calls[c].sessionId,
                               sequenceNumber |-> calls[c].sequenceNumber])
  /\ calls' = [calls EXCEPT ![c].at = "post"]
  /\ UNCHANGED <<relayVars, activeSessions, polling, task, polls, inbox>>

\* messagesAPI.send with the number obtained.
SendPost(c, p) ==
  /\ calls[c].at = "post"
  /\ SlotFree(p)
  /\ \A d \in Calls : calls[d].slot # p
  /\ Post(p, "messages",
          WithCiphertext(
            Request(Sender, "all", calls[c].sessionId, Peer(Sender), NULL, NULL, now,
                    NullSig, NULL, FALSE, calls[c].sequenceNumber),
            calls[c].ciphertext))
  /\ calls' = [calls EXCEPT ![c].at = "sent", ![c].slot = p]
  /\ UNCHANGED <<activeSessions, store, polling, task, polls, txns, issued, inbox>>

\* The relay has answered: sendMessage returns or throws.
SendDone(c) ==
  /\ calls[c].at = "sent"
  /\ pc[calls[c].slot] = "idle"
  /\ calls' = [calls EXCEPT ![c] = NoCall]
  /\ UNCHANGED <<relayVars, activeSessions, store, polling, task, polls, txns, issued, inbox>>

\* A sendMessage call in progress takes its next step.
SendMessage(c) ==
  \/ GetSuccess(c)
  \/ PutSuccess(c)
  \/ \E p \in Procs : SendPost(c, p)
  \/ SendDone(c)

\* ------------------------------------------------ getConversationMessages
\* getConversationMessages up to the request.
ClientRead(u, p) ==
  /\ task[u].op = "idle"
  /\ SlotFree(p)
  /\ Post(p, "conversation",
          Request(u, "all", NoSession, Peer(u), NULL, NULL, 0, NullSig, NULL, FALSE, 0))
  /\ task' = [task EXCEPT ![u] = Task("read", p, NoSession, NoKey, 0, NULL)]
  /\ UNCHANGED <<sendVars, activeSessions, store, polling, polls>>

\* crypto.subtle.decrypt under AES-GCM: the tag verifies under the sealing
\* key alone.
OpensUnderAnyKey(ciphertext, keyData) == TRUE

Opens(ciphertext, keyData) == ciphertext.key = keyData

\* decryptMessage inside the try of getConversationMessages: the plaintext,
\* or the placeholder when the key is missing or decryption throws.
decryptMessage(u, msg) ==
  IF /\ msg.sessionId \in DOMAIN store[u]
     /\ Opens(msg.ciphertext, store[u][msg.sessionId].keyData)
    THEN [from |-> msg.from, to |-> msg.to, plaintext |-> msg.ciphertext.plaintext,
          decrypted |-> TRUE]
    ELSE [from |-> msg.from, to |-> msg.to, plaintext |-> "[Decryption failed]",
          decrypted |-> FALSE]

\* getConversationMessages from the response on: every message is decrypted
\* on its own.
ClientReadDone(u) ==
  /\ Replied(u, "read")
  /\ LET r == resp[task[u].slot]
     IN IF r.status = 200
          THEN /\ inbox' = [inbox EXCEPT ![u] =
                    [i \in DOMAIN r.body |-> decryptMessage(u, r.body[i])]]
               /\ Done(u, NULL)
          ELSE /\ Done(u, "Request failed")
               /\ UNCHANGED inbox
  /\ UNCHANGED <<relayVars, calls, txns, issued, activeSessions, store, polling, polls>>

\* The page is reloaded: the service's activeSessions map, the component's
\* poll timers and every call in progress are gone; the IndexedDB store
\* and the relay are as they were.
Restart(u) ==
  /\ DOMAIN activeSessions[u] # {}
  /\ activeSessions' = [activeSessions EXCEPT ![u] = [s \in {} |-> NoSessionData]]
  /\ polling' = [polling EXCEPT ![u] = {}]
  /\ polls' = [polls EXCEPT ![u] = 0]
  /\ task' = [task EXCEPT ![u] = NoTask]
  /\ inbox' = [inbox EXCEPT ![u] = <<>>]
  /\ IF u = Sender
       THEN calls' = [c \in Calls |-> NoCall] /\ txns' = <<>> /\ UNCHANGED issued
       ELSE UNCHANGED <<calls, txns, issued>>
  /\ UNCHANGED <<relayVars, store>>

\* The component's poll timers: each fires again and again, whatever else
\* the client is doing in between.
PollTimer(u) ==
  \/ \E p \in Procs : \E sessionId \in polling[u] : ClientComplete(u, p, sessionId)
  \/ \E sessionId \in polling[u] : ClientVerify(u, sessionId)

\* The same two clients and relay, where every handler and every service
\* call in progress eventually takes its step and every poll timer that can
\* act again and again eventually does; the users start and answer
\* exchanges when they like.
SpecLive ==
  /\ Init
  /\ [][NextHandshake]_vars
  /\ \A p \in Procs : WF_vars(Handshake(p))
  /\ \A u \in ClientUsers :
       /\ WF_vars(ClientInitiated(u))
       /\ WF_vars(ClientResponded(u))
       /\ WF_vars(ClientCompleted(u))
       /\ WF_vars(ClientVerified(u))
       /\ SF_vars(PollTimer(u))

\* The two clients and the relay under the same scheduling, where either
\* page may be reloaded at any moment.
NextRestart ==
  \/ NextHandshake
  \/ \E u \in ClientUsers : Restart(u)

SpecRestart ==
  /\ Init
  /\ [][NextRestart]_vars
  /\ \A p \in Procs : WF_vars(Handshake(p))
  /\ \A u \in ClientUsers :
       /\ WF_vars(ClientInitiated(u))
       /\ WF_vars(ClientResponded(u))
       /\ WF_vars(ClientCompleted(u))
       /\ WF_vars(ClientVerified(u))
       /\ SF_vars(PollTimer(u))

\* u1 running the handshake toward u2 and, once both clients have finished
\* it, u1's user sending on the session, several sendMessage calls at a
\* time.
OneHandshake ==
  \/ \E p \in Procs : ClientInitiate(Sender, p)
  \/ ClientInitiated(Sender)
  \/ \E p \in Procs : \E sessionId \in DOMAIN ledger :
       ClientRespond(Peer(Sender), p, sessionId)
  \/ ClientResponded(Peer(Sender))
  \/ \E p \in Procs : \E sessionId \in polling[Sender] :
       ClientComplete(Sender, p, sessionId)
  \/ ClientCompleted(Sender)
  \/ \E sessionId \in polling[Peer(Sender)] : ClientVerify(Peer(Sender), sessionId)
  \/ ClientVerified(Peer(Sender))
  \/ \E p \in Procs : Handshake(p) \/ Channel(p)

NextSends ==
  \/ OneHandshake
  \/ \E c \in Calls : \E sessionId \in DOMAIN store[Sender] :
       /\ \A u \in ClientUsers : task[u].op = "idle" /\ polling[u] = {}
       /\ SendBegin(c, sessionId)
  \/ \E c \in Calls : SendMessage(c)

SpecSends == Init /\ [][NextSends]_vars

\* The same run where a poll callback of u1 that overlapped the one that
\* cleared the timer may complete the exchange again.
NextAgain ==
  \/ NextSends
  \/ \E p \in Procs : \E sessionId \in DOMAIN ledger :
       ClientCompleteLate(Sender, p, sessionId)

SpecAgain == Init /\ [][NextAgain]_vars

\* POST /messages by u2 in sequence, carrying a ciphertext sealed under a
\* key u1 does not hold.
InboxInputs(route) ==
  IF route = "messages"
    THEN {WithCiphertext(
            Request(Peer(Sender), "all", sid, Sender, NULL, NULL, now, NullSig, NULL,
                    FALSE, q),
            encryptMessage(NoKey, Plaintext)) :
            sid \in DOMAIN ledger, q \in 1..MaxSeq}
    ELSE {}

\* Both clients have finished the handshake and no request is under way.
AtRest ==
  /\ \A u \in ClientUsers : task[u].op = "idle" /\ polling[u] = {}
  /\ \A p \in Procs : pc[p] = "idle"

\* u1 running the handshake toward u2; after it, one request at a time, u1
\* sending on the session, u2's side posting messages that do not open,
\* and u1 fetching the conversation.
NextInbox ==
  \/ OneHandshake
  \/ \E sessionId \in DOMAIN store[Sender] :
       AtRest /\ ClientSend(Sender, 1, sessionId)
  \/ ClientSent(Sender)
  \/ \E body \in InboxInputs("messages") : AtRest /\ Receive(1, "messages", body)
  \/ AtRest /\ store[Sender] # <<>> /\ ClientRead(Sender, 1)
  \/ ClientReadDone(Sender)
  \/ GetConversation(1)

SpecInbox == Init /\ [][NextInbox]_vars

\* The two clients with their poll timers seen poll by poll, while the
\* clock stays before the record's expiry.
NextPoll ==
  \/ \E u \in ClientUsers : ClientHandshake(u)
  \/ \E p \in Procs : Handshake(p)
  \/ \E u \in ClientUsers : \E sessionId \in polling[u] : Poll(u, sessionId)

SpecPoll == Init /\ [][NextPoll]_vars

\* Two clients running the handshake and sending messages while the clock
\* runs and the TTL index removes records.
NextClient ==
  \/ \E u \in ClientUsers : ClientHandshake(u)
  \/ \E u \in ClientUsers : ClientChannel(u)
  \/ \E p \in Procs : Handshake(p)
  \/ \E p \in Procs : Channel(p)
  \/ Environment

SpecClient == Init /\ [][NextClient]_vars

\* The attacker u3 putting its own key on a session through the demo route.
MitmInputs(route) ==
  IF route = "respond-vulnerable"
    THEN {Request("u3", "all", sid, NULL, "eX", "n1", 0, NullSig, NULL, FALSE, 0) :
            sid \in DOMAIN ledger}
    ELSE {}

\* Two clients running the handshake while u3 uses the demo route.
NextMitm ==
  \/ \E u \in ClientUsers : ClientHandshake(u)
  \/ \E p \in Procs : Handshake(p)
  \/ \E p \in Procs : \E route \in Routes :
       pc[p] = "idle" /\ \E body \in MitmInputs(route) : Receive(p, route, body)
  \/ \E p \in Procs : RespondVulnerableFind(p) \/ RespondVulnerableSave(p)

SpecMitm == Init /\ [][NextMitm]_vars

\* ----------------------------------------------------------------- claims
\* The step in which the handler of slot p leaves the label it is at.
Leaves(p, label) == pc[p] = label /\ pc'[p] # label

Unchanged == ledger' = ledger /\ messages' = messages /\ accepted' = accepted

\* The last sequence number the relay accepted from a sender on a session,
\* 0 when it accepted none.
AcceptedFrom(sessionId, from) ==
  {i \in DOMAIN accepted :
     accepted[i].sessionId = sessionId /\ accepted[i].from = from}

LastAccepted(sessionId, from) ==
  IF AcceptedFrom(sessionId, from) = {} THEN 0
  ELSE accepted[CHOOSE i \in AcceptedFrom(sessionId, from) :
                  \A j \in AcceptedFrom(sessionId, from) : j <= i].sequenceNumber

\* C1: with POST /messages handled one at a time, a message of a session
\* party that reaches the sequence check is accepted exactly when its
\* sequenceNumber is the party's last accepted number plus one, and the
\* counter then holds that number; any other number is answered 409
\* REPLAY_DETECTED with the ledger, the message store and the accepted
\* history unchanged.  Consecutive accepted messages of one direction carry
\* s and s+1.
C1_Gate ==
  \A p \in Procs :
    (/\ Leaves(p, "messages_found")
     /\ doc[p].sessionId \in DOMAIN ledger
     /\ req[p].caller \in {ledger[doc[p].sessionId].initiatorId,
                           ledger[doc[p].sessionId].responderId})
    => LET sid == doc[p].sessionId
           from == req[p].caller
           seq == req[p].sequenceNumber
       IN IF seq = LastAccepted(sid, from) + 1
            THEN /\ accepted' = Append(accepted,
                      [sessionId |-> sid, from |-> from, sequenceNumber |-> seq])
                 /\ IF ledger[sid].initiatorId = from
                      THEN ledger'[sid].initiatorLastSequence = seq
                      ELSE ledger'[sid].responderLastSequence = seq
            ELSE /\ resp'[p] = Response(409, "REPLAY_DETECTED")
                 /\ Unchanged

C1_Consecutive ==
  \A i, j \in DOMAIN accepted :
    (/\ i < j
     /\ accepted[i].sessionId = accepted[j].sessionId
     /\ accepted[i].from = accepted[j].from
     /\ \A k \in DOMAIN accepted :
          (i < k /\ k < j) =>
            ~(accepted[k].sessionId = accepted[i].sessionId
              /\ accepted[k].from = accepted[i].from))
    => accepted[j].sequenceNumber = accepted[i].sequenceNumber + 1

C1_SequenceGate == [][C1_Gate /\ C1_Consecutive']_vars

\* C1 witness: two messages were accepted in one direction and a third
\* request has just been answered 409 REPLAY_DETECTED.
C1_Witness ==
  /\ \E i, j \in DOMAIN accepted :
       /\ i < j
       /\ accepted[i].sessionId = accepted[j].sessionId
       /\ accepted[i].from = accepted[j].from
  /\ \E p \in Procs : resp[p] = Response(409, "REPLAY_DETECTED")

\* C2: each sequence number is accepted at most once per session and
\* direction, also when the POST /messages requests that carry it are
\* processed concurrently.
C2_AcceptedAtMostOnce ==
  \A i, j \in DOMAIN accepted :
    (/\ i # j
     /\ accepted[i].sessionId = accepted[j].sessionId
     /\ accepted[i].from = accepted[j].from)
    => accepted[i].sequenceNumber # accepted[j].sequenceNumber

\* C3: under any interleaving of the requests on a session, the record's
\* initiatorLastSequence and responderLastSequence never decrease.
C3_CountersNeverDecrease ==
  [][\A sid \in DOMAIN ledger :
       sid \in DOMAIN ledger' =>
         /\ ledger'[sid].initiatorLastSequence >= ledger[sid].initiatorLastSequence
         /\ ledger'[sid].responderLastSequence >= ledger[sid].responderLastSequence]_vars

\* C4: of two Respond requests processed concurrently on an initiated
\* record, the one that saves after the record has left status initiated is
\* answered INVALID_STATUS and writes nothing.
C4_OneRespondWins ==
  [][\A p \in Procs :
       (/\ Leaves(p, "respond_found")
        /\ doc[p].sessionId \in DOMAIN ledger
        /\ ledger[doc[p].sessionId].status # "initiated"
        /\ ledger[doc[p].sessionId].responderId = req[p].caller)
       => /\ resp'[p] = Response(400, "INVALID_STATUS")
          /\ ledger' = ledger]_vars

\* C5: Confirm changes a record only when its status is responded or
\* confirmed and the caller's own confirmation slot is empty; an authorized
\* Confirm on any other record is answered INVALID_STATUS and changes
\* nothing.
ConfirmAllowed(session, isInitiator) ==
  /\ session.status \in {"responded", "confirmed"}
  /\ IF isInitiator THEN session.initiatorConfirmation = NULL
                    ELSE session.responderConfirmation = NULL

C5_ConfirmStatusGate ==
  [][\A p \in Procs :
       (Leaves(p, "confirm_found") /\ doc[p].sessionId \in DOMAIN ledger)
       => LET session == ledger[doc[p].sessionId]
              authorized ==
                req[p].caller = (IF req[p].isInitiator THEN session.initiatorId
                                                       ELSE session.responderId)
          IN /\ ledger' # ledger => ConfirmAllowed(session, req[p].isInitiator)
             /\ (authorized /\ ~ConfirmAllowed(session, req[p].isInitiator))
                  => /\ resp'[p].code = "INVALID_STATUS"
                     /\ ledger' = ledger]_vars

\* C6: in every reachable state a record in status initiated has no
\* responder key, nonce or signature and no confirmation; one in status
\* responded has both ephemeral keys and both nonces and no confirmation;
\* one in status confirmed has both ephemeral keys and exactly one
\* confirmation; one in status completed has both confirmations.
C6_StatusFields ==
  \A sid \in DOMAIN ledger :
    LET r == ledger[sid]
        confirmations ==
          (IF r.initiatorConfirmation # NULL THEN 1 ELSE 0)
            + (IF r.responderConfirmation # NULL THEN 1 ELSE 0)
        bothKeys ==
          r.initiatorEphemeralPublic # NULL /\ r.responderEphemeralPublic # NULL
    IN /\ r.status = "initiated" =>
            /\ r.responderEphemeralPublic = NULL
            /\ r.responderNonce = NULL
            /\ r.responderSignature = NullSig
            /\ confirmations = 0
       /\ r.status = "responded" =>
            /\ bothKeys
            /\ r.initiatorNonce # NULL /\ r.responderNonce # NULL
            /\ confirmations = 0
       /\ r.status = "confirmed" => bothKeys /\ confirmations = 1
       /\ r.status = "completed" => confirmations = 2

\* A signature that was made with the caller's registered signing key over
\* exactly these bytes.
Genuine(caller, signature, data) ==
  signingPublicKey(caller) # NULL /\ signature = Sign(caller, data)

\* C7: an Init or Respond whose signature was not made by the caller's
\* registered key over the payload rebuilt from the request fields never
\* changes the ledger, and when the request passes the gates that precede
\* the signature check it is answered 401 INVALID_SIGNATURE.
C7_InvalidSignatureRejected ==
  [][\A p \in Procs :
       /\ (/\ Leaves(p, "initiate")
           /\ ~Genuine(req[p].caller, req[p].signature,
                 InitPayload(req[p].to, req[p].ephemeralPublic, req[p].nonce,
                             req[p].timestamp)))
          => /\ ledger' = ledger
             /\ (/\ req[p].fields = "all"
                 /\ Abs(now - req[p].timestamp) <= fiveMinutes
                 /\ signingPublicKey(req[p].to) # NULL
                 /\ signingPublicKey(req[p].caller) # NULL)
                => resp'[p] = Response(401, "INVALID_SIGNATURE")
       /\ (/\ Leaves(p, "respond_found")
           /\ ~Genuine(req[p].caller, req[p].signature,
                 ResponsePayload(req[p].sessionId, req[p].ephemeralPublic,
                                 req[p].nonce, req[p].timestamp)))
          => /\ ledger' = ledger
             /\ (/\ doc[p].rec.responderId = req[p].caller
                 /\ doc[p].rec.status = "initiated"
                 /\ now <= doc[p].rec.expiresAt
                 /\ signingPublicKey(req[p].caller) # NULL)
                => resp'[p] = Response(401, "INVALID_SIGNATURE")]_vars

\* C7 witness: a Respond or Init was answered INVALID_SIGNATURE while the
\* ledger holds a record that is still initiated.
C7_Witness ==
  /\ \E p \in Procs : resp[p] = Response(401, "INVALID_SIGNATURE")
  /\ \E sid \in DOMAIN ledger :
       ledger[sid].status = "initiated" /\ ledger[sid].responderSignature = NullSig

\* C8: every record was created with a signature its initiator made over
\* the record's initiator fields, and responder fields are present only
\* together with a signature the record's responder made over them.
C8_OnlyVerifiedWrites ==
  \A sid \in DOMAIN ledger :
    LET r == ledger[sid]
    IN /\ Genuine(r.initiatorId, r.initiatorSignature,
            InitPayload(r.responderId, r.initiatorEphemeralPublic, r.initiatorNonce,
                        r.initiatorSignature.data.timestamp))
       /\ (r.responderEphemeralPublic # NULL \/ r.responderNonce # NULL
             \/ r.status = "responded")
          => Genuine(r.responderId, r.responderSignature,
               ResponsePayload(sid, r.responderEphemeralPublic, r.responderNonce,
                               r.responderSignature.data.timestamp))

\* C9: an Init, Respond or POST /messages whose timestamp is more than 5
\* minutes from the relay's clock is answered with the timestamp-expired
\* error whatever its signature and session id are, the handler returns
\* without reading the ledger, and nothing changes; a timestamp exactly 5
\* minutes off passes the freshness gate.
TimestampExpired(route) ==
  IF route = "messages" THEN Response(400, "REPLAY_DETECTED")
                        ELSE Response(400, "TIMESTAMP_EXPIRED")

C9_FreshnessFirst ==
  [][\A p \in Procs : \A route \in {"initiate", "respond", "messages"} :
       (Leaves(p, route) /\ req[p].fields = "all")
       => /\ Abs(now - req[p].timestamp) > fiveMinutes
               => /\ resp'[p] = TimestampExpired(route)
                  /\ pc'[p] = "idle"
                  /\ doc'[p] = NoDoc
                  /\ Unchanged
          /\ Abs(now - req[p].timestamp) = fiveMinutes
               => /\ resp'[p].code # "TIMESTAMP_EXPIRED"
                  /\ (route = "messages" /\ req[p].sessionId \in DOMAIN ledger)
                       => pc'[p] = "messages_found"
                  /\ (route = "respond" /\ req[p].sessionId \in DOMAIN ledger)
                       => pc'[p] = "respond_found"
                  /\ (route = "initiate" /\ ledger = [s \in {} |-> NoRecord]
                        /\ Genuine(req[p].caller, req[p].signature,
                             InitPayload(req[p].to, req[p].ephemeralPublic,
                                         req[p].nonce, req[p].timestamp))
                        /\ signingPublicKey(req[p].to) # NULL)
                       => resp'[p].code = "EXCHANGE_INITIATED"]_vars

\* C9 witness: a request was answered TIMESTAMP_EXPIRED while the ledger
\* holds a record whose Init carried a timestamp exactly 5 minutes old.
C9_Witness ==
  /\ \E p \in Procs : resp[p] = Response(400, "TIMESTAMP_EXPIRED")
  /\ \E sid \in DOMAIN ledger :
       ledger[sid].initiatorSignature.data.timestamp = sid[3] - fiveMinutes

\* C10: a Respond by a caller other than the record's responderId, and a
\* Confirm by a caller other than the party its isInitiator names, is
\* answered 403 UNAUTHORIZED and leaves the ledger as it is.
C10_UnauthorizedRejected ==
  [][\A p \in Procs :
       /\ (/\ Leaves(p, "respond_found")
           /\ doc[p].sessionId \in DOMAIN ledger
           /\ ledger[doc[p].sessionId].responderId # req[p].caller)
          => resp'[p] = Response(403, "UNAUTHORIZED") /\ ledger' = ledger
       /\ (/\ Leaves(p, "confirm_found")
           /\ doc[p].sessionId \in DOMAIN ledger
           /\ req[p].caller #
                (IF req[p].isInitiator THEN ledger[doc[p].sessionId].initiatorId
                                       ELSE ledger[doc[p].sessionId].responderId))
          => resp'[p] = Response(403, "UNAUTHORIZED") /\ ledger' = ledger]_vars

\* C10 witness: a request on an existing record was answered UNAUTHORIZED.
C10_Witness ==
  /\ \E p \in Procs : resp[p] = Response(403, "UNAUTHORIZED")
  /\ DOMAIN ledger # {}

\* C11: a Respond by the responder on a record it found in a status other
\* than initiated is answered INVALID_STATUS and leaves the record, with its
\* responder key, nonce, signature and status, as it was.
C11_RespondStatusGate ==
  [][\A p \in Procs :
       (/\ Leaves(p, "respond_found")
        /\ doc[p].rec.status # "initiated"
        /\ doc[p].rec.responderId = req[p].caller)
       => /\ resp'[p] = Response(400, "INVALID_STATUS")
          /\ \A sid \in DOMAIN ledger :
               /\ sid \in DOMAIN ledger'
               /\ ledger'[sid].responderEphemeralPublic = ledger[sid].responderEphemeralPublic
               /\ ledger'[sid].responderNonce = ledger[sid].responderNonce
               /\ ledger'[sid].responderSignature = ledger[sid].responderSignature
               /\ ledger'[sid].status = ledger[sid].status]_vars

C11_Witness ==
  \E p \in Procs : \E sid \in DOMAIN ledger :
    /\ resp[p] = Response(400, "INVALID_STATUS")
    /\ ledger[sid].status \in {"responded", "confirmed", "completed"}
    /\ ledger[sid].responderEphemeralPublic # NULL
\* C12: a Respond on an initiated record, or a Confirm, handled after the
\* record's expiresAt is answered SESSION_EXPIRED and leaves the record in
\* status expired.
C12_ExpiredRejected ==
  [][\A p \in Procs :
       (/\ \/ Leaves(p, "respond_found") /\ doc[p].rec.status = "initiated"
           \/ Leaves(p, "confirm_found")
        /\ doc[p].sessionId \in DOMAIN ledger
        /\ now > ledger[doc[p].sessionId].expiresAt)
       => /\ resp'[p] = Response(400, "SESSION_EXPIRED")
          /\ doc[p].sessionId \in DOMAIN ledger'
          /\ ledger'[doc[p].sessionId].status = "expired"]_vars

\* A record without its message counters.
HandshakeFields(session) ==
  [session EXCEPT !.initiatorLastSequence = 0, !.responderLastSequence = 0]

C14_CompletedKept ==
  [][\A sid \in DOMAIN ledger :
       ledger[sid].status = "completed" => sid \in DOMAIN ledger']_vars

\* C15: the initiator and the responder of every record are two different
\* users.
C15_DistinctParties ==
  \A sid \in DOMAIN ledger : ledger[sid].initiatorId # ledger[sid].responderId

\* The sessions whose key a client's store gains in a step.
NewlyStored(u) == {sid \in DOMAIN store'[u] : sid \notin DOMAIN store[u]}

\* C16: a client stores a session key only after its own confirmation is on
\* the record, and the initiator only once the responder's confirmation is
\* on the record and is the one its own secret gives.
C16_StoreAfterConfirmed ==
  [][\A u \in ClientUsers : \A sid \in NewlyStored(u) :
       /\ sid \in DOMAIN ledger
       /\ ledger[sid].initiatorId = u =>
            /\ ledger[sid].initiatorConfirmation # NULL
            /\ ledger[sid].responderConfirmation =
                 generateHMAC(task[u].sessionKey.secret,
                   ConfirmationData(sid, "responder", task[u].sessionKey.secret))
       /\ ledger[sid].responderId = u =>
            ledger[sid].responderConfirmation # NULL]_vars

\* The sessions on which a client's verifyKeyConfirmation throws in a step.
Mismatched(u) ==
  {sid \in polling[u] : sid \notin polling'[u] /\ task'[u].error = "MITM Detected"}

\* C17: when the responder's verifyKeyConfirmation finds a mismatch, the
\* record's status becomes failed, the responder's confirmation is not sent,
\* and the responder neither stores the session key nor keeps it in
\* activeSessions.
C17_MismatchFails ==
  [][\A u \in ClientUsers : \A sid \in Mismatched(u) :
       /\ sid \in DOMAIN ledger'
       /\ ledger'[sid].status = "failed"
       /\ ledger'[sid].responderConfirmation = NULL
       /\ \A p \in Procs : pc'[p] = pc[p]
       /\ sid \notin DOMAIN store'[u]
       /\ activeSessions'[u][sid].sessionKey = NoKey]_vars

\* C18: when the attacker has put its own ephemeral key on a session of the
\* two honest parties, neither of them stores a session key for it: no key a
\* client stores is derived from the attacker's key.
C18_NoKeyFromAttacker ==
  [][\A u \in ClientUsers : \A sid \in NewlyStored(u) :
       "eX" \notin store'[u][sid].keyData.secret]_vars

\* The key the initiator of a session has derived, in its running
\* completeKeyExchange or in its store.
InitiatorKeys(sid) ==
  LET i == ledger[sid].initiatorId
  IN IF i \notin ClientUsers THEN {}
     ELSE {task[i].sessionKey : x \in {1} \cap
             {IF task[i].op = "complete" /\ task[i].sessionId = sid THEN 1 ELSE 0}}
          \cup {store[i][s].keyData : s \in DOMAIN store[i] \cap {sid}}

\* What the responder of a session keeps of its derivation.
ResponderData(sid) ==
  LET r == ledger[sid].responderId
  IN IF r \notin ClientUsers THEN {}
     ELSE {activeSessions[r][s] : s \in {t \in DOMAIN activeSessions[r] \cap {sid} :
                                          activeSessions[r][t].role = "responder"}}

\* C19: in a handshake of two honest clients the key the initiator derives
\* has the secret, the salt (initiator nonce, then responder nonce) and the
\* info of the key the responder derives, and the confirmation the initiator
\* sent is the one the responder computes.
C19_SameDerivation ==
  \A sid \in DOMAIN ledger : \A sd \in ResponderData(sid) :
    /\ \A k \in InitiatorKeys(sid) :
         /\ k = sd.sessionKey
         /\ k.salt = <<ledger[sid].initiatorNonce, ledger[sid].responderNonce>>
         /\ k.info = info
    /\ ledger[sid].initiatorConfirmation # NULL =>
         ledger[sid].initiatorConfirmation =
           generateHMAC(sd.sharedSecret,
                        ConfirmationData(sid, "initiator", sd.sharedSecret))

C19_Witness ==
  \E sid \in DOMAIN ledger : \E sd \in ResponderData(sid) :
    /\ ledger[sid].initiatorId \in ClientUsers
    /\ sid \in DOMAIN store[ledger[sid].initiatorId]
    /\ sd.sessionKey # NoKey
    /\ ledger[sid].initiatorConfirmation # NULL
    /\ ledger[sid].status = "completed"

\* The relay's counter for a party of a session.
RelayCounter(sid, u) ==
  IF ledger[sid].initiatorId = u THEN ledger[sid].initiatorLastSequence
  ELSE ledger[sid].responderLastSequence

\* C20: after a send that was not accepted, the client's stored
\* sequenceNumber is below the number it sent; and once no send of a client
\* is in flight, its stored sequenceNumber for a session is the relay's
\* counter for it.
C20_CounterInSync ==
  [][\A u \in ClientUsers :
       /\ (/\ task[u].op = "send"
           /\ task'[u].op = "idle"
           /\ resp[task[u].slot].status # 201)
          => store'[u][task[u].sessionId].sequenceNumber < task[u].sequenceNumber
       /\ task'[u].op # "send" =>
            \A sid \in DOMAIN store'[u] \cap DOMAIN ledger' :
              store'[u][sid].sequenceNumber = RelayCounter(sid, u)']_vars
\* C21: a sender's counter advances exactly when its message is stored:
\* once the handler of an accepted POST /messages has returned, every
\* (session, sender, sequence number) that passed the sequence gate has its
\* message in the store, so the accepted history and the store have the same
\* length whenever no handler stands between the two saves.
C21_CounterIffStored ==
  (\A p \in Procs : pc[p] # "messages_save") => Len(messages) = Len(accepted)

\* C28: every stored message has ciphertext plus iv of at most 256 KiB, and
\* a POST /messages over that bound which passes every other gate is answered
\* MESSAGE_TOO_LARGE and changes neither the message store nor a counter.
Oversize(p) ==
  /\ pc[p] \in {"messages_found", "messages_save"}
  /\ req[p].estimatedSize > MAX_SIZE
  /\ pc[p] = "messages_found" => MessagesResponse(req[p], doc[p]).status = 201

C28_SizeBound ==
  [][/\ \A i \in 1..Len(messages') : messages'[i].estimatedSize <= MAX_SIZE
     /\ \A p \in Procs : Oversize(p) /\ pc'[p] # pc[p] =>
           /\ ledger' = ledger
           /\ messages' = messages
           /\ pc'[p] = "idle"
           /\ resp'[p].code = "MESSAGE_TOO_LARGE"]_vars

\* C30: the step by which a POST /messages saves its counter changes, in the
\* ledger, only the sender's own counter of that session, which becomes the
\* request's sequence number; a request answered with anything but 201 has
\* saved no counter and leaves the ledger as it is.
OwnCounterOnly(b, d) ==
  IF SenderIsInitiator(d.rec, b.caller)
    THEN [ledger EXCEPT ![d.sessionId].initiatorLastSequence = b.sequenceNumber]
    ELSE [ledger EXCEPT ![d.sessionId].responderLastSequence = b.sequenceNumber]

C30_OwnCounterOnly ==
  [][\A p \in Procs :
       /\ (Leaves(p, "messages_found") /\ pc'[p] = "messages_save")
            => ledger' = OwnCounterOnly(req[p], doc[p])
       /\ (/\ pc[p] \in {"messages", "messages_found", "messages_save"}
           /\ pc'[p] = "idle"
           /\ resp'[p].status # 201)
            => ledger' = ledger /\ pc[p] # "messages_save"]_vars

\* C29: the message store only grows: every step of the relay leaves each
\* stored message in place and as it was.
C29_StoreOnlyGrows ==
  [][\A i \in 1..Len(messages) :
       Len(messages') >= i /\ messages'[i] = messages[i]]_vars

\* C23: an Init answered 201 adds exactly one record, under a session id no
\* record had, and leaves every existing record as it was; an Init answered
\* otherwise leaves the ledger unchanged.
C23_InitMintsNewRecord ==
  [][\A p \in Procs : Leaves(p, "initiate") =>
       IF resp'[p].status = 201
         THEN /\ resp'[p].sessionId \notin DOMAIN ledger
              /\ DOMAIN ledger' = DOMAIN ledger \cup {resp'[p].sessionId}
              /\ \A s \in DOMAIN ledger : ledger'[s] = ledger[s]
         ELSE ledger' = ledger]_vars

\* C23 witness: the same pair has two records, one of them responded to,
\* and a further Init in the millisecond of the second was refused.
C23_Witness ==
  /\ \E s, t \in DOMAIN ledger :
       /\ s # t
       /\ ledger[s].initiatorId = ledger[t].initiatorId
       /\ ledger[s].responderId = ledger[t].responderId
       /\ ledger[s].status = "responded"
       /\ t[3] = now
  /\ resp[1].code = "INITIATION_FAILED"

\* C22: a handshake or channel request rejected for missing fields, an
\* expired timestamp, an invalid signature, an unauthorized caller, an invalid
\* status, an expired session or a sequence mismatch has saved exactly one
\* audit entry when its handler returns, and the entry names the caller.
GatingFailures ==
  {"MISSING_FIELDS", "SECURITY_ERROR", "TIMESTAMP_EXPIRED", "INVALID_SIGNATURE",
   "UNAUTHORIZED", "INVALID_STATUS", "SESSION_EXPIRED", "REPLAY_DETECTED"}

C22_RejectionsLogged ==
  [][\A p \in Procs :
       (/\ pc[p] # "idle"
        /\ pc'[p] = "idle"
        /\ resp'[p].code \in GatingFailures \/ resp'[p].status = 403)
         => /\ Len(logged'[p]) = 1
            /\ logged'[p][1].userId = req[p].caller]_vars

\* C27: a GET of status, session, pending or conversation changes no
\* handshake record, counter or message; and on a session whose record is
\* completed, the same GET by the same caller sent right after it returns
\* the body the first one returned.
GetResponse(route, b) ==
  CASE route = "status" -> StatusResponse(b)
    [] route = "session" -> SessionResponse(b)
    [] route = "pending" -> PendingResponse(b)
    [] route = "conversation" -> ConversationResponse(b)

HandshakeSessions == {SessionId(u, Peer(u), StartTime, FALSE) : u \in ClientUsers}

StatusSteps ==
  {<<"initiated", "responded">>, <<"responded", "confirmed">>,
   <<"confirmed", "completed">>}

Established(sid) ==
  /\ sid \in DOMAIN ledger
  /\ ledger[sid].status = "completed"
  /\ \A u \in ClientUsers : sid \in DOMAIN store[u]
  /\ store["u1"][sid].keyData = store["u2"][sid].keyData

maxAttempts == 40

C25_PollingBounded ==
  [][\A u \in ClientUsers :
       polls'[u] # polls[u] => polls'[u] <= maxAttempts /\ UNCHANGED relayVars]_vars

\* C31: once a record is completed, no request changes its status,
\* expiresAt, ephemeral values, nonces, signatures or confirmations; only
\* its two counters may still change.
C31_CompletedFrozen ==
  [][\A sid \in DOMAIN ledger :
       (ledger[sid].status = "completed" /\ sid \in DOMAIN ledger')
         => HandshakeFields(ledger'[sid]) = HandshakeFields(ledger[sid])]_vars

\* C32: a POST /messages whose caller is neither the initiator nor the
\* responder of the record it names is answered 403, and one that passes
\* the field and timestamp checks and names no stored record is answered
\* 404; in both cases the ledger (so both counters), the message store and
\* the accepted history stay as they are.
C32_StrangerAndUnknownRejected ==
  [][\A p \in Procs :
       /\ (/\ Leaves(p, "messages_found")
           /\ req[p].caller # doc[p].rec.initiatorId
           /\ req[p].caller # doc[p].rec.responderId)
          => (resp'[p] = Response(403, NULL) /\ Unchanged)
       /\ (/\ Leaves(p, "messages")
           /\ req[p].fields = "all"
           /\ validateTimestamp(req[p].timestamp)
           /\ req[p].sessionId \notin DOMAIN ledger)
          => (resp'[p] = Response(404, NULL) /\ Unchanged)]_vars

\* C32 witness: after a message of a party was accepted, a request has just
\* been answered 403.
C32_Witness ==
  /\ accepted # <<>>
  /\ \E p \in Procs : pc[p] = "idle" /\ resp[p] = Response(403, NULL)

\* C33: a POST /messages that reaches the sequence check on a record whose
\* status is not completed is rejected: the handler returns there and the
\* ledger (so both counters), the message store and the accepted history
\* stay as they are.
C33_CompletedOnly ==
  [][\A p \in Procs :
       (Leaves(p, "messages_found") /\ doc[p].rec.status # "completed")
         => (pc'[p] = "idle" /\ Unchanged)]_vars

\* C34: every stored message that names a stored session has the session's
\* two parties as its from and to, one each.
C34_MessagesBetweenParties ==
  \A i \in DOMAIN messages :
    messages[i].sessionId \in DOMAIN ledger
      => {messages[i].from, messages[i].to}
           = {ledger[messages[i].sessionId].initiatorId,
              ledger[messages[i].sessionId].responderId}

\* C35: GET status and GET session answer SESSION_NOT_FOUND for an id the
\* ledger does not hold and UNAUTHORIZED, with no contents, to a caller who
\* is neither the record's initiator nor its responder; contents go only
\* to one of the two parties, and they never include initiatorLastSequence
\* or responderLastSequence.
C35_PartiesOnlyNoCounters ==
  [][\A p \in Procs : \A b \in {req[p]} :
       (Leaves(p, "status") \/ Leaves(p, "session"))
         => /\ b.sessionId \notin DOMAIN ledger
                 => resp'[p] = Response(404, "SESSION_NOT_FOUND")
            /\ (/\ b.sessionId \in DOMAIN ledger
                /\ b.caller # ledger[b.sessionId].initiatorId
                /\ b.caller # ledger[b.sessionId].responderId)
                 => resp'[p] = Response(403, "UNAUTHORIZED")
            /\ resp'[p].body # <<>>
                 => /\ b.sessionId \in DOMAIN ledger
                    /\ b.caller \in {ledger[b.sessionId].initiatorId,
                                     ledger[b.sessionId].responderId}
                    /\ DOMAIN resp'[p].body[1]
                         \cap {"initiatorLastSequence", "responderLastSequence"} = {}]_vars

\* C35 witness: a party has just been given the session contents of a
\* record on which a message was accepted, so a counter is above its start.
C35_Witness ==
  /\ accepted # <<>>
  /\ \E p \in Procs : pc[p] = "idle" /\ resp[p].code = "SESSION_RETRIEVED"

\* C36: once a client has stored the key of a session (the initiator at the
\* end of completeKeyExchange, the responder at the end of
\* verifyKeyConfirmation), its activeSessions holds neither the ECDH key
\* pair nor the shared secret of that session.
C36_EphemeralsCleared ==
  \A u \in ClientUsers : \A sid \in DOMAIN store[u] :
    sid \in DOMAIN activeSessions[u]
      => /\ activeSessions[u][sid].myECDHKeyPair = NULL
         /\ activeSessions[u][sid].sharedSecret = NoSecret

\* C37: with page reloads allowed at any moment, a record the responder has
\* responded to is still eventually completed: a client that lost its
\* activeSessions map resumes the handshake.
C37_ResumesAfterRestart ==
  \A sid \in HandshakeSessions :
    (sid \in DOMAIN ledger /\ ledger[sid].status = "responded")
      ~> (sid \in DOMAIN ledger /\ ledger[sid].status = "completed")

\* C38: the numbers getNextSequenceNumber hands out for one session on one
\* client are 1, 2, 3, ... in the order the calls resolve, however the
\* sendMessage calls overlap: no number is handed out twice.
C38_DistinctSequenceNumbers ==
  \A i \in DOMAIN issued :
    issued[i].sequenceNumber =
      Cardinality({j \in 1..i : issued[j].sessionId = issued[i].sessionId})

\* C38 witness: two sendMessage calls hold the numbers they obtained at the
\* same time, neither having sent yet.
C38_Witness ==
  \E c, d \in Calls :
    /\ c # d
    /\ calls[c].at = "post" /\ calls[d].at = "post"
    /\ calls[c].sessionId = calls[d].sessionId

\* C40: the sequenceNumber a client's store holds for a session never
\* decreases, whatever completeKeyExchange, verifyKeyConfirmation and
\* sendMessage calls run.
C40_StoredCounterNeverDecreases ==
  [][\A u \in ClientUsers : \A sid \in DOMAIN store[u] :
       /\ sid \in DOMAIN store'[u]
       /\ store'[u][sid].sequenceNumber >= store[u][sid].sequenceNumber]_vars

\* C39: when getConversationMessages returns, the client's store (keys and
\* counters) is as it was, and the result has one entry per message of the
\* conversation, in order: a message sealed under the key the client holds
\* for its session comes back decrypted with its plaintext, any other comes
\* back marked not decrypted and without its plaintext.
C39_FailedDecryptionIsLocal ==
  [][\A u \in ClientUsers :
       (task[u].op = "read" /\ task'[u].op = "idle" /\ task'[u].error = NULL)
         => LET body == resp[task[u].slot].body
            IN /\ store' = store
               /\ DOMAIN inbox'[u] = DOMAIN body
               /\ \A i \in DOMAIN body :
                    IF /\ body[i].sessionId \in DOMAIN store[u]
                       /\ body[i].ciphertext.key = store[u][body[i].sessionId].keyData
                      THEN /\ inbox'[u][i].decrypted
                           /\ inbox'[u][i].plaintext = body[i].ciphertext.plaintext
                      ELSE /\ ~inbox'[u][i].decrypted
                           /\ inbox'[u][i].plaintext # body[i].ciphertext.plaintext]_vars

\* C39 witness: a client's result holds a message that failed to decrypt
\* next to one that decrypted.
C39_Witness ==
  \E u \in ClientUsers : \E i, j \in DOMAIN inbox[u] :
    ~inbox[u][i].decrypted /\ inbox[u][j].decrypted

====
